---- MODULE Spec2Model ----
(***************************************************************************)
(* Model of the job-scraping pipeline (src/jobs_pipeline.py and utils/).   *)
(*                                                                         *)
(* Text is modelled as a sequence of tokens: a URL such as                 *)
(* https://acme.com/jobs/1 is <<"https:", "//acme.com", "/jobs/", "1">>.   *)
(* The token alphabet is chosen so that every keyword the code searches    *)
(* for is either a token or a substring of a token listed in Within, and   *)
(* never spans two tokens.  The empty string and None are both <<>> where  *)
(* the code only tests truthiness; an optional value is <<>> or <<v>>.     *)
(***************************************************************************)
EXTENDS Integers, Sequences, FiniteSets, TLC

----------------------------------------------------------------------------
(* Generic helpers *)

SeqsUpTo(S, n) == UNION {[1..k -> S] : k \in 0..n}

Range(s) == {s[i] : i \in 1..Len(s)}

Min(a, b) == IF a <= b THEN a ELSE b

Max(a, b) == IF a >= b THEN a ELSE b

RECURSIVE FilterSeq(_, _)
FilterSeq(s, keep) ==
    IF s = <<>> THEN <<>>
    ELSE IF Head(s) \in keep THEN <<Head(s)>> \o FilterSeq(Tail(s), keep)
         ELSE FilterSeq(Tail(s), keep)

(* Python s[:n] for any integer n *)
PyPrefix(s, n) ==
    IF n >= 0 THEN SubSeq(s, 1, Min(n, Len(s)))
    ELSE SubSeq(s, 1, Max(Len(s) + n, 0))

----------------------------------------------------------------------------
(* Text: tokens, lower-casing and substring search *)

Lower(tok) ==
    CASE tok = "/Jobs/" -> "/jobs/"
      [] tok = "Apply" -> "apply"
      [] tok = "Remote" -> "remote"
      [] tok = "WFH" -> "wfh"
      [] tok = "Hybrid" -> "hybrid"
      [] tok = "Work From Anywhere" -> "work from anywhere"
      [] tok = "Full-Time" -> "full-time"
      [] tok = "Permanent" -> "permanent"
      [] tok = "PART-TIME" -> "part-time"
      [] tok = "Part Time" -> "part time"
      [] tok = "Software Engineering Internship" -> "software engineering internship"
      [] tok = "International" -> "international"
      [] tok = "Co-op" -> "co-op"
      [] OTHER -> tok

LowerSeq(s) == [i \in 1..Len(s) |-> Lower(s[i])]

(* Within(kw): the lower-case tokens of the alphabet that contain kw *)
Within(kw) ==
    CASE kw = "/job" -> {"/job/", "/jobs/", "//jobs.lever.co", "//jobs.ashbyhq.com"}
      [] kw = "greenhouse.io" -> {"//boards.greenhouse.io"}
      [] kw = "lever.co" -> {"//jobs.lever.co"}
      [] kw = "ashbyhq.com" -> {"//jobs.ashbyhq.com"}
      [] kw = "jobs.ashbyhq.com" -> {"//jobs.ashbyhq.com"}
      [] kw = "workable.com" -> {"//apply.workable.com"}
      [] kw = "?" -> {"?src=x"}
      [] kw = "#" -> {"#top"}
      [] kw = "apply" -> {"apply", "//apply.workable.com"}
      [] kw = "intern" -> {"intern", "internship", "software engineering internship",
                           "international"}
      [] kw = "internship" -> {"internship", "software engineering internship"}
      [] OTHER -> {kw}

(* WholeWord(kw): the lower-case chunks of text in which the regular
   expression \bkw\b matches; "remotely" and "remote_first" hold the letters
   of "remote" but no word boundary after them *)
WholeWord(kw) ==
    CASE kw = "remote" -> {"remote", "non-remote", "(remote)"}
      [] kw = "hybrid" -> {"hybrid", "hybrid-friendly"}
      [] OTHER -> {kw}

(* str.strip(): leading and trailing whitespace chunks removed *)
RECURSIVE Strip(_)
Strip(s) ==
    IF s = <<>> THEN s
    ELSE IF Head(s) = " " THEN Strip(Tail(s))
    ELSE IF s[Len(s)] = " " THEN Strip(SubSeq(s, 1, Len(s) - 1))
    ELSE s

(* Python `kw in s` for a lower-cased token sequence s *)
Contains(s, kw) == \E i \in 1..Len(s) : s[i] \in Within(kw)

AnyIn(s, kws) == \E kw \in kws : Contains(s, kw)

----------------------------------------------------------------------------
(* URLs *)

SchemeTokens == {"https:", "http:", "mailto:", "tel:", "javascript:"}

HostTokens == {"//acme.com", "//boards.greenhouse.io", "//jobs.lever.co",
               "//jobs.ashbyhq.com", "//apply.workable.com",
               "//acme.bamboohr.com"}

DirTokens == {"/careers/", "/jobs/", "/Jobs/", "/job/", "/positions/", "/acme/"}

AbsPathTokens == DirTokens \cup {"/about", "/teams", "/x"}

Scheme(u) == IF u # <<>> /\ Head(u) \in SchemeTokens THEN Head(u) ELSE ""

(* the directory of a base URL: everything up to its last "/" *)
RECURSIVE BaseDir(_)
BaseDir(base) ==
    IF Len(base) <= 2 THEN base
    ELSE IF base[Len(base)] \in DirTokens THEN base
    ELSE BaseDir(SubSeq(base, 1, Len(base) - 1))

RECURSIVE StripQuery(_)
StripQuery(base) ==
    IF base = <<>> THEN <<>>
    ELSE IF Head(base) \in Within("?") \cup Within("#") THEN <<>>
    ELSE <<Head(base)>> \o StripQuery(Tail(base))

(* a base URL without its fragment *)
RECURSIVE StripFragment(_)
StripFragment(base) ==
    IF base = <<>> THEN <<>>
    ELSE IF Head(base) \in Within("#") THEN <<>>
    ELSE <<Head(base)>> \o StripFragment(Tail(base))

urljoin(base, u) ==
    IF u = <<>> THEN base
    ELSE IF Head(u) \in SchemeTokens THEN u
    ELSE IF Head(u) \in HostTokens THEN <<base[1]>> \o u
    ELSE IF Head(u) \in AbsPathTokens THEN <<base[1], base[2]>> \o u
    ELSE IF Head(u) \in Within("?") THEN StripQuery(base) \o u
    ELSE IF Head(u) \in Within("#") THEN StripFragment(base) \o u
    ELSE BaseDir(StripQuery(base)) \o u

(* a loop that does not consult the seen set *)
RECURSIVE AbsKeepAll(_, _, _)
AbsKeepAll(urls, base_url, deduped) ==
    IF urls = <<>> THEN deduped
    ELSE LET u == Head(urls)
             abs_u == urljoin(base_url, u)
         IN  IF u = <<>> THEN AbsKeepAll(Tail(urls), base_url, deduped)
             ELSE IF Head(u) \in Within("#") THEN AbsKeepAll(Tail(urls), base_url, deduped)
             ELSE IF Scheme(abs_u) \notin {"http:", "https:"}
                  THEN AbsKeepAll(Tail(urls), base_url, deduped)
             ELSE AbsKeepAll(Tail(urls), base_url, Append(deduped, abs_u))

RECURSIVE AbsDedupe(_, _, _)
AbsDedupe(urls, base_url, deduped) ==
    IF urls = <<>> THEN deduped
    ELSE LET u == Head(urls)
             abs_u == urljoin(base_url, u)
         IN  IF u = <<>> THEN AbsDedupe(Tail(urls), base_url, deduped)
             ELSE IF Head(u) \in Within("#") THEN AbsDedupe(Tail(urls), base_url, deduped)
             ELSE IF Scheme(abs_u) \notin {"http:", "https:"}
                  THEN AbsDedupe(Tail(urls), base_url, deduped)
             ELSE IF abs_u \in Range(deduped) THEN AbsDedupe(Tail(urls), base_url, deduped)
             ELSE AbsDedupe(Tail(urls), base_url, Append(deduped, abs_u))

(* lines 19-36 *)
absolutize_and_dedupe_urls(urls, base_url) == AbsDedupe(urls, base_url, <<>>)

RECURSIVE extract_anchors_from_page_data(_)
extract_anchors_from_page_data(links) ==
    IF links = <<>> THEN <<>>
    ELSE IF Head(links).href # <<>>
         THEN <<Head(links)>> \o extract_anchors_from_page_data(Tail(links))
         ELSE extract_anchors_from_page_data(Tail(links))

----------------------------------------------------------------------------
(* Candidate selection (run_pipeline, one Source) *)

AnchorLimit == 150

BoardAnchorLimit == 200

(* a page whose anchors are all considered *)
limited_to_all(anchors) == anchors

(* line 112: anchors[:150] *)
limited(anchors) == PyPrefix(anchors, AnchorLimit)

(* Tier 1: map the oracle's indices (0-based) back to hrefs *)
RECURSIVE Tier1Urls(_, _)
Tier1Urls(selected_indices, limited_anchors) ==
    IF selected_indices = <<>> THEN <<>>
    ELSE LET idx == Head(selected_indices)
             rest == Tier1Urls(Tail(selected_indices), limited_anchors)
         IN  IF 0 <= idx /\ idx < Len(limited_anchors)
             THEN <<limited_anchors[idx + 1].href>> \o rest
             ELSE rest

keywords == {"/careers/", "/career/", "/jobs/", "/job/", "/positions/", "/position/",
             "/opportunities/", "/opportunity/", "/opening/", "/openings/",
             "greenhouse.io", "lever.co", "ashbyhq.com", "workable.com"}

exclude_substrings == {"?", "#", "/teams", "/departments", "/locations", "/search",
                       "/filters", "/pages/", "/page/", "/category/", "/categories/"}

apply_phrases == {"apply", "view role", "view job", "see role", "see job"}

(* lines 180-190: the test of the Tier 2 loop for one anchor *)
LooksLikePosting(a) ==
    LET href_l == LowerSeq(a.href)
        text == LowerSeq(a.text)
    IN  /\ a.href # <<>>
        /\ \/ AnyIn(href_l, keywords) /\ ~AnyIn(href_l, exclude_substrings)
           \/ AnyIn(text, apply_phrases)

(* Tier 2: the heuristic over the Source page's anchors, in page order *)
heuristic_matches(limited_anchors) ==
    LET matched == SelectSeq(limited_anchors, LooksLikePosting)
    IN  [i \in 1..Len(matched) |-> matched[i].href]

board_hosts == {"greenhouse.io", "lever.co", "ashbyhq.com", "workable.com", "jobs.ashbyhq.com"}

(* line 205: the href names a known ATS-board host *)
IsBoardLink(a) == a.href # <<>> /\ AnyIn(LowerSeq(a.href), board_hosts)

BoardHrefs(limited_anchors) ==
    LET matched == SelectSeq(limited_anchors, IsBoardLink)
    IN  [i \in 1..Len(matched) |-> matched[i].href]

board_links(limited_anchors, careers_url) ==
    absolutize_and_dedupe_urls(BoardHrefs(limited_anchors), careers_url)

board_phrases == {"apply", "view job", "view role", "see job", "job details"}

board_segments == {"/job/", "/jobs/", "/positions/", "/careers/"}

(* Tier 3: the heuristic over the re-scraped board page's anchors *)
RECURSIVE board_raw(_)
board_raw(board_anchors) ==
    IF board_anchors = <<>> THEN <<>>
    ELSE LET a == Head(board_anchors)
             href_l == LowerSeq(a.href)
             text == LowerSeq(a.text)
             rest == board_raw(Tail(board_anchors))
         IN  IF a.href = <<>> THEN rest
             ELSE IF AnyIn(text, board_phrases) /\ Contains(href_l, "/job")
                  THEN <<a.href>> \o rest
             ELSE IF AnyIn(href_l, board_segments) THEN <<a.href>> \o rest
             ELSE rest

(* the keywords that name a job path, as opposed to an ATS-board host *)
job_path_keywords == {"/careers/", "/career/", "/jobs/", "/job/", "/positions/",
                      "/position/", "/opportunities/", "/opportunity/", "/opening/",
                      "/openings/"}

(* some anchor has a direct job-path keyword or apply/view-role text *)
HasDirectSignal(limited_anchors) ==
    \E i \in 1..Len(limited_anchors) :
        \/ AnyIn(LowerSeq(limited_anchors[i].href), job_path_keywords)
        \/ AnyIn(LowerSeq(limited_anchors[i].text), apply_phrases)

(* a fallback that looks at the oracle's index list, not at the hrefs *)
Tier2RunsOnNoIndex(selected_indices, limited_anchors) == selected_indices = <<>>

(* raw_urls after Tier 1 and, when Tier 1 gave no href, Tier 2 *)
Tier2Runs(selected_indices, limited_anchors) ==
    Tier1Urls(selected_indices, limited_anchors) = <<>>

raw_urls(selected_indices, limited_anchors) ==
    IF Tier2Runs(selected_indices, limited_anchors)
    THEN heuristic_matches(limited_anchors)
    ELSE Tier1Urls(selected_indices, limited_anchors)

Tier3Runs(job_urls) == job_urls = <<>>

----------------------------------------------------------------------------
(* Field post-processing and row conversion (utils/parsing.py) *)

RemoteWords == {"remote", "work from anywhere", "wfh", "hybrid"}

(* a search that tells upper case from lower case *)
detect_remote_case_sensitive(text) ==
    \E i \in 1..Len(text) : \E kw \in RemoteWords : text[i] \in WholeWord(kw)

(* lines 52-56: False for no text, else re.search of
   \b(remote|work from anywhere|wfh|hybrid)\b with IGNORECASE *)
detect_remote_from_text(text) ==
    \E i \in 1..Len(text) : \E kw \in RemoteWords : Lower(text[i]) \in WholeWord(kw)

(* a normalization that looks for an internship first *)
normalize_job_type_intern_first(value) ==
    LET v == LowerSeq(Strip(value))
    IN  IF value = <<>> THEN <<>>
        ELSE IF AnyIn(v, {"intern", "co-op", "internship"}) THEN <<"Internship">>
        ELSE IF AnyIn(v, {"full-time", "full time", "permanent"}) THEN <<"Full Time">>
        ELSE IF AnyIn(v, {"part-time", "part time"}) THEN <<"Part Time">>
        ELSE <<>>

(* lines 39-49 *)
normalize_job_type(value) ==
    LET v == LowerSeq(Strip(value))
    IN  IF value = <<>> THEN <<>>
        ELSE IF AnyIn(v, {"full-time", "full time", "permanent"}) THEN <<"Full Time">>
        ELSE IF AnyIn(v, {"part-time", "part time"}) THEN <<"Part Time">>
        ELSE IF AnyIn(v, {"intern", "co-op", "internship"}) THEN <<"Internship">>
        ELSE <<>>

sanitize_application_link(link, job_url, canonical_url) ==
    LET fallback == IF canonical_url # <<>> THEN canonical_url ELSE job_url
    IN  IF link = <<>> THEN fallback
        ELSE IF Scheme(link) \in {"http:", "https:"} /\ Len(link) >= 2 /\ link[2] \in HostTokens
             THEN link
        ELSE IF Scheme(link) = "mailto:" THEN link
        ELSE IF Scheme(link) = ""
             THEN (IF fallback # <<>> THEN urljoin(fallback, link) ELSE link)
        ELSE fallback

postprocess_fields(fields, override, page_html, job_url, canonical_url) ==
    LET jt == normalize_job_type(fields.job_type)
    IN  [fields EXCEPT
            !.remote_ok = IF fields.remote_ok = <<>>
                          THEN <<detect_remote_from_text(page_html)>>
                          ELSE fields.remote_ok,
            !.company_name = IF override # <<>> THEN override ELSE fields.company_name,
            !.job_type = IF jt # <<>> THEN jt ELSE fields.job_type,
            !.application_link =
                sanitize_application_link(fields.application_link, job_url, canonical_url)]

to_sheet_row(fields) ==
    << fields.title, fields.company_name, fields.location,
       IF fields.remote_ok = <<TRUE>> THEN "TRUE" ELSE "FALSE",
       fields.job_type, fields.description_html,
       fields.min_salary, fields.max_salary, fields.application_link >>

(* a digest of the URL and the title only *)
fingerprint_without_company(canonical_url, title, company) ==
    <<"sha256">> \o canonical_url \o <<"||">> \o title

(* sha256 is modelled as an injective tagging of the concatenated text *)
fingerprint(canonical_url, title, company) ==
    <<"sha256">> \o canonical_url \o <<"||">> \o title \o <<"||">> \o company

----------------------------------------------------------------------------
(* ATS parser registry (utils/ats/bamboohr.py) *)

BambooHosts == {"//acme.bamboohr.com"}

IsDigits(tok) == tok \in {"0", "1", "2", "7", "9"}

(* is_bamboohr_job_url(url) is not None *)
can_handle(url) ==
    /\ Len(url) >= 4
    /\ url[1] \in SchemeTokens
    /\ Lower(url[2]) \in BambooHosts
    /\ url[3] = "/careers/"
    /\ IsDigits(url[4])

----------------------------------------------------------------------------
(* Fingerprint cache (utils/cache.py): the jobs table, keyed by url *)

(* a lookup that never finds the URL *)
is_job_seen_never(c, url) == FALSE

(* lines 41-45 *)
is_job_seen(c, url) == url \in DOMAIN c

(* a lookup that compares the wrong column *)
is_fingerprint_seen_by_url(c, fp) == \E u \in DOMAIN c : c[u].canonical_url = fp

is_fingerprint_seen(c, fp) == \E u \in DOMAIN c : c[u].fingerprint = fp

(* a write that leaves the fingerprint column empty *)
mark_job_seen_without_fp(c, url, canonical_url, title, company, fp) ==
    [u \in (DOMAIN c) \cup {url} |->
        IF u = url
        THEN [canonical_url |-> canonical_url, title |-> title, company |-> company,
              fingerprint |-> <<>>]
        ELSE c[u]]

(* INSERT OR REPLACE INTO jobs(url, ...) *)
mark_job_seen(c, url, canonical_url, title, company, fp) ==
    [u \in (DOMAIN c) \cup {url} |->
        IF u = url
        THEN [canonical_url |-> canonical_url, title |-> title,
              company |-> company, fingerprint |-> fp]
        ELSE c[u]]

----------------------------------------------------------------------------
(* The world the pipeline runs against: Sources, pages and postings *)

MaxFaults == 2

MaxConcurrency == 2

MaxJobsCap == 1

(* the least --max-jobs explored: the option is an unvalidated int *)
LeastMaxJobs == -1

MaxIndices == 2

TopIndex == 2

(* the rate gate: worker threads sharing one client, calls per thread, the
   clock's horizon and rate_limit_delay, in ticks *)
GateCallers == 2

MaxCalls == 2

MaxTime == 6

RateLimitDelay == 2

MaxRetries == 2

MaxUrls == 3
MaxWords == 2

(* the longest oracle response tried, in characters *)
MaxChars == 4

(* the longest Tier 1 selection tried: one more than the 30 the prompt asks for *)
ManySelected == 31

Callers == 1..GateCallers

Anchor(h, t) == [href |-> h, text |-> t]

SrcA == <<"https:", "//acme.com", "/careers/">>

SrcB == <<"https:", "//acme.com", "/about">>

JobA == <<"https:", "//acme.com", "/jobs/", "1">>

JobH == <<"https:", "//acme.bamboohr.com", "/careers/", "7">>

Board == <<"https:", "//boards.greenhouse.io", "/acme/">>

BoardQ == <<"https:", "//boards.greenhouse.io", "/acme/", "?src=x">>

MailTo == <<"mailto:", "hr@acme.com">>

PageJobs == << Anchor(<<"/jobs/", "1">>, <<"Engineer">>),
               Anchor(JobH, <<"Apply">>) >>

PageBoard == << Anchor(Board, <<"Open roles">>) >>

PageBoardQ == << Anchor(BoardQ, <<"Open roles">>), Anchor(MailTo, <<"Contact">>) >>

Pages == {PageJobs, PageBoard, PageBoardQ}

BoardPages == { << Anchor(<<"/acme/", "/jobs/", "9">>, <<"Analyst">>) >>, <<>> }

Tier1Answers == SeqsUpTo(0..TopIndex, MaxIndices)

(* what the Page Fetcher returns for a job URL: the pages carry no canonical
   metadata, so the generic tier falls back to the job URL *)
PageOf(url) ==
    [html |-> IF url = JobH THEN <<"Engineer", "Remote">> ELSE <<"Engineer", "on-site">>,
     canonical |-> <<>>]

TitleOf(url) ==
    CASE url \in {JobA, JobH} -> <<"Engineer">>
      [] url \in {Board, BoardQ} -> <<"Open roles">>
      [] OTHER -> <<"Analyst">>

(* what the extraction oracle returns for a job page *)
OracleFields(url) ==
    [title |-> TitleOf(url), company_name |-> <<"Acme">>, location |-> <<"Berlin">>,
     remote_ok |-> <<>>, job_type |-> <<"full-time">>, description_html |-> <<"desc">>,
     min_salary |-> <<>>, max_salary |-> <<>>, application_link |-> <<>>]

(* what BambooHRParser.parse_job returns for a posting it can handle: the
   BambooHR posting JobH is the posting of JobA and gives JobA as its share
   URL *)
AtsParsed(url) ==
    [fields |-> [OracleFields(url) EXCEPT !.remote_ok = <<TRUE>>,
                                          !.job_type = <<"contract">>,
                                          !.application_link = JobA],
     canonical |-> JobA,
     page_html |-> <<>>]

EmptyCache == [u \in {} |-> 0]

SeededCache ==
    mark_job_seen(EmptyCache, JobA, JobA, <<"Engineer">>, <<"Acme">>,
                  fingerprint(JobA, <<"Engineer">>, <<"Acme">>))

----------------------------------------------------------------------------
(* State of one run_pipeline invocation *)

VARIABLES
    careers_urls,     \* the list of Sources
    sheet_id,         \* <<>> when no sink identifier is given
    dry_run,
    resume,
    concurrency,
    max_jobs,         \* <<>> (None) or <<n>>
    company_override, \* <<>> (None) or the override text
    cache,            \* the jobs table: url -> CacheRecord
    totals,
    errors,           \* the list of ErrorEntry
    mpc,              \* where the main thread is
    src,              \* index in careers_urls of the Source being processed
    limited_anchors,  \* anchors of the Source page, between fetch and selection
    fallback_board,   \* the board link Tier 3 is about to fetch
    tasks,            \* the pool's tasks, one per submitted candidate
    results,          \* results collected from executor.map so far
    sink,             \* the batches appended to the sheet (or the dry-run file)
    faults,           \* number of failures injected so far
    sel,              \* history: what candidate selection did for this Source
    pool_base,        \* history: the counters when this Source's pool was created
    fetched,          \* history: the Sources whose page fetch was called
    joblog,           \* history: the outcome of every finished process_job
    now,              \* the clock time.time() reads, in ticks
    last_request_time,\* the client's _last_request_time
    gpc,              \* per caller: where it is in _enforce_rate_limit
    current_time,     \* per caller: the local current_time
    wake,             \* per caller: when its time.sleep ends
    calls,            \* per caller: the calls it has made
    request_time,     \* per caller: the time.time() it is about to store
    passes,           \* history: who left the gate and sent its request, and when
    lpc,              \* where a complete_json call is
    retries_budget,   \* complete_json: retries_budget
    attempts,         \* complete_json: attempts
    last_error,       \* complete_json: last_error, <<>> for None
    directives,       \* how often the JSON-only directive was appended to user_prompt
    content,          \* the content _post_chat returned for the current attempt
    requests,         \* history: the HTTP requests of the call
    verdicts,         \* history: what parsing and validation said, per attempt
    sleeps,           \* history: the time.sleep calls of the call
    outcome,          \* <<>> or how complete_json ended
    fpc,              \* where a fetch_page call is
    page_url,         \* fetch_page: url
    page_requests,    \* history: the HTTP requests of the call
    page_sleeps,      \* history: the time.sleep calls of the call
    page_outcome,     \* <<>> or how fetch_page ended
    fn,               \* the pure function being called, "" for none
    arg,              \* its arguments
    ret,              \* <<>> before it returns, then <<value>>
    job_detail_memo,  \* lru_cache of _fetch_job_detail: key -> the payload stored
    company_info_memo,\* lru_cache of _fetch_company_info: the keys it holds
    apc,              \* per thread: where its parse_job call is
    aurl,             \* per thread: the URL it is parsing
    aresult,          \* per thread: <<>> or the payload its fetch returned
    ats_calls,        \* per thread: the parse_job calls it has made
    ats_fetches       \* history: the HTTP fetches of the two endpoints

collect_errors == TRUE

pipe_vars == <<careers_urls, sheet_id, dry_run, resume, concurrency, max_jobs,
               company_override, cache, totals, errors, mpc, src, limited_anchors,
               fallback_board, tasks, results, sink, faults, sel, pool_base, fetched,
               joblog>>

inputs == <<careers_urls, sheet_id, dry_run, resume, concurrency, max_jobs,
            company_override>>

gate_vars == <<now, last_request_time, gpc, current_time, wake, calls, request_time,
               passes>>

llm_vars == <<lpc, retries_budget, attempts, last_error, directives, content, requests,
              verdicts, sleeps, outcome>>

(* the state of the service clients, which the Source loop leaves alone *)
page_vars == <<fpc, page_url, page_requests, page_sleeps, page_outcome>>

fn_vars == <<fn, arg, ret>>

memo_vars == <<job_detail_memo, company_info_memo, apc, aurl, aresult, ats_calls,
               ats_fetches>>

client_vars == <<gate_vars, llm_vars, page_vars, fn_vars, memo_vars>>

vars == <<pipe_vars, gate_vars, llm_vars, page_vars, fn_vars, memo_vars>>

(* the threads of a pool that call the parser *)
ParseThreads == 1..MaxConcurrency

(* a process that has not called the parser: both memos are empty *)
MemoStart ==
    /\ job_detail_memo = [key \in {} |-> ""]
    /\ company_info_memo = {}
    /\ apc = [w \in ParseThreads |-> "idle"]
    /\ aurl = [w \in ParseThreads |-> <<>>]
    /\ aresult = [w \in ParseThreads |-> <<>>]
    /\ ats_calls = [w \in ParseThreads |-> 0]
    /\ ats_fetches = <<>>

(* a client right after construction: _last_request_time = 0.0, long before
   the first reading of the clock *)
GateStart ==
    /\ now = RateLimitDelay
    /\ last_request_time = 0
    /\ gpc = [c \in Callers |-> "idle"]
    /\ current_time = [c \in Callers |-> 0]
    /\ wake = [c \in Callers |-> 0]
    /\ calls = [c \in Callers |-> 0]
    /\ request_time = [c \in Callers |-> 0]
    /\ passes = <<>>

(* no complete_json call under way *)
LLMStart ==
    /\ lpc = "idle"
    /\ retries_budget = 0
    /\ attempts = 0
    /\ last_error = <<>>
    /\ directives = 0
    /\ content = ""
    /\ requests = <<>>
    /\ verdicts = <<>>
    /\ sleeps = <<>>
    /\ outcome = <<>>

(* no fetch_page call under way *)
PageStart ==
    /\ fpc = "idle"
    /\ page_url = <<>>
    /\ page_requests = <<>>
    /\ page_sleeps = <<>>
    /\ page_outcome = <<>>

(* no function call under observation *)
FnStart ==
    /\ fn = ""
    /\ arg = <<>>
    /\ ret = <<>>

NoSel == [attempted |-> FALSE, has_board |-> FALSE, has_direct |-> FALSE,
          no_index |-> FALSE, n1 |-> 0, tier2 |-> FALSE, n2 |-> 0, found12 |-> 0,
          tier3 |-> FALSE, board |-> FALSE, n3 |-> 0, origin |-> "none"]

NoBase == [errors |-> 0, duplicates |-> 0, entries |-> 0]

NewTask(u) == [url |-> u, pc |-> "queued", tmp |-> 0, msg |-> "", canonical |-> <<>>,
               fields |-> <<>>, tier |-> "", calls |-> <<>>, res |-> <<>>, out |-> ""]

SinkConfigs == {<<TRUE, <<>> >>, <<FALSE, <<>> >>, <<FALSE, <<"sheet">> >>}

PipeWith(lists, sinkcfgs, caches, concs) ==
    /\ careers_urls \in lists
    /\ \E sinkcfg \in sinkcfgs : dry_run = sinkcfg[1] /\ sheet_id = sinkcfg[2]
    /\ resume \in BOOLEAN
    /\ concurrency \in concs
    /\ max_jobs \in {<<>>} \cup {<<n>> : n \in LeastMaxJobs..MaxJobsCap}
    /\ company_override = <<>>
    /\ cache \in caches
    /\ totals = [careers_processed |-> 0, job_urls_found |-> 0, rows_appended |-> 0,
                 duplicates |-> 0, errors |-> 0]
    /\ errors = <<>>
    /\ mpc = "init"
    /\ src = 0
    /\ limited_anchors = <<>>
    /\ fallback_board = <<>>
    /\ tasks = <<>>
    /\ results = <<>>
    /\ sink = <<>>
    /\ faults = 0
    /\ sel = NoSel
    /\ pool_base = NoBase
    /\ fetched = <<>>
    /\ joblog = <<>>

InitWith(lists, sinkcfgs, caches, concs) ==
    /\ PipeWith(lists, sinkcfgs, caches, concs)
    /\ GateStart
    /\ MemoStart
    /\ LLMStart
    /\ PageStart
    /\ FnStart

(* The runs explored: every input combination for at most one Source (the
   cache empty or holding JobA from an earlier run), and two Sources in a row
   handled by a single worker, appending to a sheet, from an empty cache. *)
Init ==
    \/ InitWith({<<>>, <<SrcA>>}, SinkConfigs, {EmptyCache, SeededCache},
                0..MaxConcurrency)
    \/ InitWith({<<SrcA, SrcB>>}, {<<FALSE, <<"sheet">> >>}, {EmptyCache}, {1})

CanFail == faults < MaxFaults

----------------------------------------------------------------------------
(* The Source loop (main thread) *)

(* a start that does not validate the sink identifier *)
StartupUnchecked ==
    /\ mpc = "init"
    /\ \/ /\ src' = 1
          /\ mpc' = IF careers_urls = <<>> THEN "done" ELSE "fetch"
          /\ UNCHANGED faults
       \/ /\ ~dry_run
          /\ CanFail
          /\ faults' = faults + 1
          /\ mpc' = "raised"
          /\ src' = src
    /\ UNCHANGED <<client_vars, inputs, cache, totals, errors, limited_anchors, fallback_board,
                   tasks, results, sink, sel, pool_base, fetched, joblog>>

(* lines 84-106: the pre-loop validation (sys.exit(2) without a sink
   identifier), the sheet is opened and its header ensured (lines 90-97,
   outside any try: a failure of the sheet service leaves run_pipeline as an
   exception, mpc = "raised", and no payload is returned), then the loop
   starts *)
Startup ==
    /\ mpc = "init"
    /\ IF ~dry_run /\ sheet_id = <<>>
       THEN mpc' = "exit" /\ src' = src /\ UNCHANGED faults
       ELSE \/ /\ src' = 1
               /\ mpc' = IF careers_urls = <<>> THEN "done" ELSE "fetch"
               /\ UNCHANGED faults
            \/ /\ ~dry_run
               /\ CanFail
               /\ faults' = faults + 1
               /\ mpc' = "raised"
               /\ src' = src
    /\ UNCHANGED <<client_vars, inputs, cache, totals, errors, limited_anchors, fallback_board,
                   tasks, results, sink, sel, pool_base, fetched, joblog>>

(* a loop that returns after its first Source *)
AfterSourceStops == "done"

(* the loop moves on to the next Source, or returns the payload *)
AfterSource == IF src + 1 > Len(careers_urls) THEN "done" ELSE "fetch"

(* a Source boundary that counts the failed Source as processed *)
SourceErrorCounted(t, message) ==
    /\ totals' = [t EXCEPT !.errors = @ + 1, !.careers_processed = @ + 1]
    /\ errors' = Append(errors, [scope |-> "careers", url |-> careers_urls[src],
                                  message |-> message])
    /\ mpc' = AfterSource
    /\ src' = src + 1
    /\ limited_anchors' = <<>>
    /\ fallback_board' = <<>>
    /\ tasks' = <<>>
    /\ results' = <<>>
    /\ pool_base' = pool_base

(* lines 373-381: the Source boundary, on top of totals value t *)
SourceError(t, message) ==
    /\ totals' = [t EXCEPT !.errors = @ + 1]
    /\ errors' = IF collect_errors
                 THEN Append(errors, [scope |-> "careers", url |-> careers_urls[src],
                                      message |-> message])
                 ELSE errors
    /\ mpc' = AfterSource
    /\ src' = src + 1
    /\ limited_anchors' = <<>>
    /\ fallback_board' = <<>>
    /\ tasks' = <<>>
    /\ results' = <<>>
    /\ pool_base' = pool_base

(* lines 229-236 and 341-342: count, truncate, create the pool and submit *)
Submit(job_urls) ==
    LET counted == [totals EXCEPT !.job_urls_found = @ + Len(job_urls)]
        handed == IF max_jobs # <<>> THEN PyPrefix(job_urls, max_jobs[1]) ELSE job_urls
    IN  IF concurrency <= 0
        THEN SourceError(counted, "max_workers must be greater than 0")
        ELSE /\ totals' = counted
             /\ tasks' = [i \in 1..Len(handed) |-> NewTask(handed[i])]
             /\ results' = <<>>
             /\ mpc' = "pool"
             /\ limited_anchors' = <<>>
             /\ fallback_board' = <<>>
             /\ pool_base' = [errors |-> totals.errors, duplicates |-> totals.duplicates,
                              entries |-> Len(errors)]
             /\ UNCHANGED <<errors, src>>

(* line 110: fetch the Source page; lines 111-112: its first anchors *)
FetchSource ==
    /\ mpc = "fetch"
    /\ fetched' = Append(fetched, careers_urls[src])
    /\ \/ /\ \E page \in Pages :
               limited_anchors' = limited(extract_anchors_from_page_data(page))
          /\ mpc' = "tier1"
          /\ sel' = NoSel
          /\ UNCHANGED <<totals, errors, src, fallback_board, tasks, results, faults,
                         pool_base>>
       \/ /\ CanFail
          /\ faults' = faults + 1
          /\ sel' = NoSel
          /\ SourceError(totals, "fetch failed")
    /\ UNCHANGED <<client_vars, inputs, cache, sink, joblog>>

(* history: which tiers ran for this Source and what they produced, given
   the oracle's Tier 1 answer and the candidate list after Tiers 1 and 2 *)
SelRecord(selected_indices, anchors, job_urls) ==
    [attempted |-> TRUE,
     has_board |-> BoardHrefs(anchors) # <<>>,
     has_direct |-> HasDirectSignal(anchors),
     no_index |-> selected_indices = <<>>,
     n1 |-> Len(Tier1Urls(selected_indices, anchors)),
     tier2 |-> Tier2Runs(selected_indices, anchors),
     n2 |-> IF Tier2Runs(selected_indices, anchors)
            THEN Len(heuristic_matches(anchors)) ELSE 0,
     found12 |-> Len(job_urls),
     tier3 |-> Tier3Runs(job_urls), board |-> FALSE, n3 |-> 0,
     origin |-> IF job_urls = <<>> THEN "none"
                ELSE IF Tier2Runs(selected_indices, anchors) THEN "tier2" ELSE "tier1"]

(* a Source that treats a failed oracle call as an empty answer *)
SelectCandidatesDespiteFailure ==
    /\ mpc = "tier1"
    /\ \/ /\ UNCHANGED faults
          /\ \E selected_indices \in Tier1Answers :
             \E raw \in {raw_urls(selected_indices, limited_anchors)} :
             \E job_urls \in {absolutize_and_dedupe_urls(raw, careers_urls[src])} :
             \E links \in {IF Tier3Runs(job_urls)
                           THEN board_links(limited_anchors, careers_urls[src])
                           ELSE <<>>} :
                 IF links # <<>>
                 THEN /\ fallback_board' = links[1]
                      /\ mpc' = "board"
                      /\ sel' = [SelRecord(selected_indices, limited_anchors, job_urls)
                                     EXCEPT !.board = TRUE]
                      /\ UNCHANGED <<totals, errors, src, limited_anchors, tasks,
                                     results, pool_base>>
                 ELSE /\ sel' = SelRecord(selected_indices, limited_anchors, job_urls)
                      /\ Submit(job_urls)
       \/ /\ CanFail
          /\ faults' = faults + 1
          /\ \E raw \in {raw_urls(<<>>, limited_anchors)} :
             \E job_urls \in {absolutize_and_dedupe_urls(raw, careers_urls[src])} :
             \E links \in {IF Tier3Runs(job_urls)
                           THEN board_links(limited_anchors, careers_urls[src])
                           ELSE <<>>} :
                 IF links # <<>>
                 THEN /\ fallback_board' = links[1]
                      /\ mpc' = "board"
                      /\ sel' = [SelRecord(<<>>, limited_anchors, job_urls)
                                     EXCEPT !.board = TRUE]
                      /\ UNCHANGED <<totals, errors, src, limited_anchors, tasks,
                                     results, pool_base>>
                 ELSE /\ sel' = SelRecord(<<>>, limited_anchors, job_urls)
                      /\ Submit(job_urls)
    /\ UNCHANGED <<client_vars, inputs, cache, sink, fetched, joblog>>

(* lines 128-209: Tier 1 oracle call, Tier 2, absolutization, Tier 3 board lookup *)
SelectCandidates ==
    /\ mpc = "tier1"
    /\ \/ /\ UNCHANGED faults
          /\ \E selected_indices \in Tier1Answers :
             \E raw \in {raw_urls(selected_indices, limited_anchors)} :
             \E job_urls \in {absolutize_and_dedupe_urls(raw, careers_urls[src])} :
             \E links \in {IF Tier3Runs(job_urls)
                           THEN board_links(limited_anchors, careers_urls[src])
                           ELSE <<>>} :
                 IF links # <<>>
                 THEN /\ fallback_board' = links[1]
                      /\ mpc' = "board"
                      /\ sel' = [SelRecord(selected_indices, limited_anchors, job_urls)
                                     EXCEPT !.board = TRUE]
                      /\ UNCHANGED <<totals, errors, src, limited_anchors, tasks,
                                     results, pool_base>>
                 ELSE /\ sel' = SelRecord(selected_indices, limited_anchors, job_urls)
                      /\ Submit(job_urls)
       \/ /\ CanFail
          /\ faults' = faults + 1
          /\ sel' = sel
          /\ SourceError(totals, "LLM failed to produce valid JSON after retries")
    /\ UNCHANGED <<client_vars, inputs, cache, sink, fetched, joblog>>

(* lines 210-227: Tier 3 re-scrapes the board page; a failure is only logged *)
BoardFetch ==
    /\ mpc = "board"
    /\ \/ /\ \E board_page \in BoardPages :
               \E job_urls \in {absolutize_and_dedupe_urls(
                                    board_raw(PyPrefix(extract_anchors_from_page_data(board_page),
                                                       BoardAnchorLimit)),
                                    fallback_board)} :
                   /\ sel' = [sel EXCEPT !.n3 = Len(job_urls),
                                         !.origin = IF job_urls = <<>> THEN "none" ELSE "tier3"]
                   /\ Submit(job_urls)
          /\ UNCHANGED faults
       \/ /\ CanFail
          /\ faults' = faults + 1
          /\ sel' = sel
          /\ Submit(<<>>)
    /\ UNCHANGED <<client_vars, inputs, cache, sink, fetched, joblog>>

----------------------------------------------------------------------------
(* process_job, run by the workers of the Source's pool (lines 238-339) *)

Running == {j \in 1..Len(tasks) : tasks[j].pc \notin {"queued", "done"}}

TaskFp(t) == fingerprint(t.canonical, t.fields[1].title, t.fields[1].company_name)

(* process_job returns: its locals die, the future holds the result *)
Finished(t, res, out) ==
    [url |-> t.url, pc |-> "done", tmp |-> 0, msg |-> "", canonical |-> <<>>,
     fields |-> <<>>, tier |-> t.tier, calls |-> t.calls, res |-> res, out |-> out]

(* history: how one process_job ended; wrote = CacheRecords it wrote,
   dup_inc = by how much totals.duplicates moved when it stored its sum,
   held = the records carrying its fingerprint when it returned, calls = the
   external calls of its extraction tiers, in order *)
LogEntry(t, out, cache_after, wrote, dup_inc) ==
    LET fp == IF t.fields = <<>> THEN <<>> ELSE TaskFp(t)
    IN  [src |-> src, url |-> t.url, out |-> out, fp |-> fp, wrote |-> wrote,
         dup_inc |-> dup_inc, calls |-> t.calls,
         held |-> Cardinality({u \in DOMAIN cache_after : cache_after[u].fingerprint = fp})]

(* lines 247-256: the deterministic tier succeeded *)
ats_tier(job_url) ==
    LET parsed == AtsParsed(job_url)
        ats_canonical == IF parsed.canonical # <<>> THEN parsed.canonical ELSE job_url
    IN  [ok |-> TRUE, tier |-> "ats", canonical |-> ats_canonical, message |-> "",
         fields |-> <<postprocess_fields(parsed.fields, company_override,
                         parsed.page_html, job_url, ats_canonical)>>,
         failures |-> 0, calls |-> <<"parse_job">>]

(* lines 271-318: the generic tier, after the calls tried and the failures
   lost before it *)
generic_tier(job_url, tried, lost, fetch_ok, oracle_ok) ==
    LET job_page == PageOf(job_url)
        gen_canonical == IF job_page.canonical # <<>> THEN job_page.canonical ELSE job_url
    IN  IF ~fetch_ok
        THEN [ok |-> FALSE, tier |-> "generic", canonical |-> <<>>,
              message |-> "fetch failed", fields |-> <<>>, failures |-> lost + 1,
              calls |-> tried \o <<"fetch_page">>]
        ELSE IF ~oracle_ok
        THEN [ok |-> FALSE, tier |-> "generic", canonical |-> <<>>,
              message |-> "LLM failed to produce valid JSON after retries",
              fields |-> <<>>, failures |-> lost + 1,
              calls |-> tried \o <<"fetch_page", "complete_json">>]
        ELSE [ok |-> TRUE, tier |-> "generic", canonical |-> gen_canonical, message |-> "",
              fields |-> <<postprocess_fields(OracleFields(job_url), company_override,
                              job_page.html, job_url, gen_canonical)>>,
              failures |-> lost,
              calls |-> tried \o <<"fetch_page", "complete_json">>]

(* an extraction in which a failing parser fails the candidate *)
extract_fields_parser_fatal(job_url, ats_ok, fetch_ok, oracle_ok) ==
    IF can_handle(job_url)
    THEN IF ats_ok THEN ats_tier(job_url)
         ELSE [ok |-> FALSE, tier |-> "ats", canonical |-> <<>>,
               message |-> "BambooHR detail payload missing 'jobOpening'",
               fields |-> <<>>, failures |-> 1, calls |-> <<"parse_job">>]
    ELSE generic_tier(job_url, <<>>, 0, fetch_ok, oracle_ok)

(* an extraction that fetches the posting's page although the parser
   delivered the fields *)
extract_fields_fetch_always(job_url, ats_ok, fetch_ok, oracle_ok) ==
    LET matched == can_handle(job_url)
    IN  IF matched /\ ats_ok
        THEN [ats_tier(job_url) EXCEPT !.calls = <<"parse_job", "fetch_page">>]
        ELSE generic_tier(job_url,
                          IF matched THEN <<"parse_job">> ELSE <<>>,
                          IF matched THEN 1 ELSE 0,
                          fetch_ok, oracle_ok)

(* lines 243-318: the two extraction tiers and postprocess_fields for one
   candidate, given which of its external calls succeed.  ok = FALSE stands
   for an exception that reaches the candidate boundary; a parser that raises
   is only logged (lines 262-269). *)
extract_fields(job_url, ats_ok, fetch_ok, oracle_ok) ==
    LET matched == can_handle(job_url)
    IN  IF matched /\ ats_ok
        THEN ats_tier(job_url)
        ELSE generic_tier(job_url,
                          IF matched THEN <<"parse_job">> ELSE <<>>,
                          IF matched THEN 1 ELSE 0,
                          fetch_ok, oracle_ok)

(* a free worker takes the next queued candidate and runs process_job up to
   its next access to shared state: the resume lookup of line 240, which
   either sends it to the return of line 241 (pc "skip_ret") or lets the
   extraction tiers run up to the fingerprint lookup (lines 243-321) *)
StartJob(i) ==
    /\ mpc = "pool"
    /\ tasks[i].pc = "queued"
    /\ \A j \in 1..(i - 1) : tasks[j].pc # "queued"
    /\ Cardinality(Running) < concurrency
    /\ \/ /\ resume /\ is_job_seen(cache, tasks[i].url)
          /\ tasks' = [tasks EXCEPT ![i].pc = "skip_ret"]
          /\ UNCHANGED <<faults, joblog>>
       \/ /\ resume
          /\ CanFail
          /\ faults' = faults + 1
          /\ tasks' = [tasks EXCEPT ![i].pc = "err_r", ![i].msg = "database is locked"]
          /\ UNCHANGED joblog
       \/ /\ ~(resume /\ is_job_seen(cache, tasks[i].url))
          /\ \E ats_ok, fetch_ok, oracle_ok \in BOOLEAN :
               LET x == extract_fields(tasks[i].url, ats_ok, fetch_ok, oracle_ok)
               IN  /\ faults + x.failures <= MaxFaults
                   /\ faults' = faults + x.failures
                   /\ tasks' = [tasks EXCEPT
                          ![i].pc = IF x.ok THEN "fpcheck" ELSE "err_r",
                          ![i].msg = x.message,
                          ![i].tier = x.tier,
                          ![i].calls = x.calls,
                          ![i].canonical = x.canonical,
                          ![i].fields = x.fields]
          /\ UNCHANGED joblog
    /\ UNCHANGED <<client_vars, inputs, fetched, cache, totals, errors, mpc, src, limited_anchors,
                   fallback_board, results, sink, sel, pool_base>>

Raise(i, message) ==
    /\ CanFail
    /\ faults' = faults + 1
    /\ tasks' = [tasks EXCEPT ![i].pc = "err_r", ![i].msg = message,
                              ![i].canonical = <<>>, ![i].fields = <<>>]

(* lines 320-323: the fingerprint lookup *)
FpCheck(i) ==
    /\ mpc = "pool"
    /\ tasks[i].pc = "fpcheck"
    /\ \/ /\ tasks' = [tasks EXCEPT
                 ![i].pc = IF is_fingerprint_seen(cache, TaskFp(tasks[i]))
                           THEN "dup_r" ELSE "mark"]
          /\ UNCHANGED faults
       \/ Raise(i, "database is locked")
    /\ UNCHANGED <<client_vars, inputs, fetched, cache, totals, errors, mpc, src, limited_anchors,
                   fallback_board, results, sink, sel, pool_base, joblog>>

(* line 324, first half: totals["duplicates"] is read *)
DupRead(i) ==
    /\ mpc = "pool"
    /\ tasks[i].pc = "dup_r"
    /\ tasks' = [tasks EXCEPT ![i].pc = "dup_w", ![i].tmp = totals.duplicates]
    /\ UNCHANGED <<client_vars, inputs, fetched, cache, totals, errors, mpc, src, limited_anchors,
                   fallback_board, results, sink, faults, sel, pool_base, joblog>>

(* line 324, second half: the sum is stored; tmp then keeps by how much
   totals.duplicates moved (history, for the log entry written at the return) *)
DupWrite(i) ==
    /\ mpc = "pool"
    /\ tasks[i].pc = "dup_w"
    /\ totals' = [totals EXCEPT !.duplicates = tasks[i].tmp + 1]
    /\ tasks' = [tasks EXCEPT ![i].pc = "dup_ret",
                              ![i].tmp = tasks[i].tmp + 1 - totals.duplicates]
    /\ UNCHANGED <<client_vars, inputs, fetched, cache, errors, mpc, src, limited_anchors,
                   fallback_board, results, sink, faults, sel, pool_base, joblog>>

(* a write that is committed before the failure is raised *)
MarkSeenThenRaise(i) ==
    /\ mpc = "pool"
    /\ tasks[i].pc = "mark"
    /\ \/ LET t == tasks[i]
          IN  /\ cache' = mark_job_seen(cache, t.url, t.canonical, t.fields[1].title,
                                        t.fields[1].company_name, TaskFp(t))
              /\ tasks' = [tasks EXCEPT ![i].pc = "ret"]
              /\ UNCHANGED faults
       \/ LET t == tasks[i]
          IN  /\ Raise(i, "database is locked")
              /\ cache' = mark_job_seen(cache, t.url, t.canonical, t.fields[1].title,
                                        t.fields[1].company_name, TaskFp(t))
    /\ UNCHANGED <<client_vars, inputs, fetched, totals, errors, mpc, src, limited_anchors,
                   fallback_board, results, sink, sel, pool_base, joblog>>

(* line 327: the CacheRecord is written *)
MarkSeen(i) ==
    /\ mpc = "pool"
    /\ tasks[i].pc = "mark"
    /\ \/ LET t == tasks[i]
          IN  /\ cache' = mark_job_seen(cache, t.url, t.canonical, t.fields[1].title,
                                        t.fields[1].company_name, TaskFp(t))
              /\ tasks' = [tasks EXCEPT ![i].pc = "ret"]
              /\ UNCHANGED faults
       \/ /\ Raise(i, "database is locked")
          /\ UNCHANGED cache
    /\ UNCHANGED <<client_vars, inputs, fetched, totals, errors, mpc, src, limited_anchors,
                   fallback_board, results, sink, sel, pool_base, joblog>>

(* line 329: the row is returned; other workers may have run since line 327 *)
ReturnRow(i) ==
    /\ mpc = "pool"
    /\ tasks[i].pc = "ret"
    /\ LET t == tasks[i]
       IN  /\ tasks' = [tasks EXCEPT ![i] = Finished(@, <<to_sheet_row(t.fields[1])>>, "row")]
           /\ joblog' = Append(joblog, LogEntry(t, "row", cache, 1, 0))
    /\ UNCHANGED <<client_vars, inputs, fetched, cache, totals, errors, mpc, src,
                   limited_anchors, fallback_board, results, sink, faults, sel, pool_base>>

(* line 332, first half: totals["errors"] is read *)
ErrRead(i) ==
    /\ mpc = "pool"
    /\ tasks[i].pc = "err_r"
    /\ tasks' = [tasks EXCEPT ![i].pc = "err_w", ![i].tmp = totals.errors]
    /\ UNCHANGED <<client_vars, inputs, fetched, cache, totals, errors, mpc, src, limited_anchors,
                   fallback_board, results, sink, faults, sel, pool_base, joblog>>

(* line 332, second half: the sum is stored *)
ErrWrite(i) ==
    /\ mpc = "pool"
    /\ tasks[i].pc = "err_w"
    /\ totals' = [totals EXCEPT !.errors = tasks[i].tmp + 1]
    /\ tasks' = [tasks EXCEPT ![i].pc = "err_a", ![i].tmp = 0]
    /\ UNCHANGED <<client_vars, inputs, fetched, cache, errors, mpc, src, limited_anchors,
                   fallback_board, results, sink, faults, sel, pool_base, joblog>>

(* lines 333-338: the ErrorEntry is appended *)
ErrAppend(i) ==
    /\ mpc = "pool"
    /\ tasks[i].pc = "err_a"
    /\ errors' = IF collect_errors
                 THEN Append(errors, [scope |-> "job", url |-> tasks[i].url,
                                      message |-> tasks[i].msg])
                 ELSE errors
    /\ tasks' = [tasks EXCEPT ![i].pc = "err_ret"]
    /\ UNCHANGED <<client_vars, inputs, fetched, cache, totals, mpc, src, limited_anchors,
                   fallback_board, results, sink, faults, sel, pool_base, joblog>>

(* how a process_job that stands before one of its 'return None' ended *)
NoneOutcome(pc) ==
    CASE pc = "skip_ret" -> "skip"
      [] pc = "dup_ret" -> "dup"
      [] pc = "err_ret" -> "err"

(* a pool that puts a failed candidate back into its queue *)
ReturnNoneRequeue(i) ==
    /\ mpc = "pool"
    /\ tasks[i].pc \in {"skip_ret", "dup_ret", "err_ret"}
    /\ LET t == tasks[i]
       IN  /\ tasks' = [tasks EXCEPT ![i] = IF t.pc = "err_ret" THEN NewTask(t.url)
                                            ELSE Finished(t, <<>>, NoneOutcome(t.pc))]
           /\ joblog' = Append(joblog, LogEntry(t, NoneOutcome(t.pc), cache, 0,
                                                IF t.pc = "dup_ret" THEN t.tmp ELSE 0))
    /\ UNCHANGED <<client_vars, inputs, fetched, cache, totals, errors, mpc, src,
                   limited_anchors, fallback_board, results, sink, faults, sel, pool_base>>

(* lines 241, 325 and 339: 'return None' after the resume lookup found the
   URL, after the duplicate was counted, after the error was recorded; other
   workers may have run since the step before *)
ReturnNone(i) ==
    /\ mpc = "pool"
    /\ tasks[i].pc \in {"skip_ret", "dup_ret", "err_ret"}
    /\ LET t == tasks[i]
       IN  /\ tasks' = [tasks EXCEPT ![i] = Finished(t, <<>>, NoneOutcome(t.pc))]
           /\ joblog' = Append(joblog, LogEntry(t, NoneOutcome(t.pc), cache, 0,
                                                IF t.pc = "dup_ret" THEN t.tmp ELSE 0))
    /\ UNCHANGED <<client_vars, inputs, fetched, cache, totals, errors, mpc, src,
                   limited_anchors, fallback_board, results, sink, faults, sel, pool_base>>

----------------------------------------------------------------------------
(* Result collection and the sink (lines 341-372) *)

(* results gathered from the last submitted candidate backwards *)
CollectBackwards ==
    /\ mpc = "pool"
    /\ Len(results) < Len(tasks)
    /\ tasks[Len(tasks) - Len(results)].pc = "done"
    /\ results' = Append(results, tasks[Len(tasks) - Len(results)].res)
    /\ UNCHANGED <<client_vars, inputs, fetched, cache, totals, errors, mpc, src, limited_anchors,
                   fallback_board, tasks, sink, faults, sel, pool_base, joblog>>

(* executor.map yields the next result in submission order *)
Collect ==
    /\ mpc = "pool"
    /\ Len(results) < Len(tasks)
    /\ tasks[Len(results) + 1].pc = "done"
    /\ results' = Append(results, tasks[Len(results) + 1].res)
    /\ UNCHANGED <<client_vars, inputs, fetched, cache, totals, errors, mpc, src, limited_anchors,
                   fallback_board, tasks, sink, faults, sel, pool_base, joblog>>

(* a batch that keeps only the first row *)
RowsFirstOnly(rs) ==
    IF rs = <<>> THEN <<>>
    ELSE IF Head(rs) # <<>> THEN <<Head(rs)[1]>>
    ELSE IF Tail(rs) # <<>> /\ Head(Tail(rs)) # <<>> THEN <<Head(Tail(rs))[1]>>
    ELSE <<>>

RECURSIVE Rows(_)
Rows(rs) ==
    IF rs = <<>> THEN <<>>
    ELSE IF Head(rs) # <<>> THEN <<Head(rs)[1]>> \o Rows(Tail(rs))
    ELSE Rows(Tail(rs))

(* lines 346-372: the batch is appended and the Source counted *)
FinishSource ==
    /\ mpc = "pool"
    /\ Len(results) = Len(tasks)
    /\ LET rows == Rows(results)
       IN  \/ /\ sink' = IF rows # <<>> THEN Append(sink, rows) ELSE sink
              /\ totals' = [totals EXCEPT
                     !.rows_appended = IF rows # <<>> THEN @ + Len(rows) ELSE @,
                     !.careers_processed = @ + 1]
              /\ mpc' = AfterSource
              /\ src' = src + 1
              /\ tasks' = <<>>
              /\ results' = <<>>
              /\ UNCHANGED <<errors, limited_anchors, fallback_board, faults, pool_base>>
           \/ /\ rows # <<>>
              /\ CanFail
              /\ faults' = faults + 1
              /\ sink' = sink
              /\ SourceError(totals, "append failed")
    /\ UNCHANGED <<client_vars, inputs, fetched, cache, sel, joblog>>

Next ==
    \/ Startup
    \/ FetchSource
    \/ SelectCandidates
    \/ BoardFetch
    \/ \E i \in 1..Len(tasks) : StartJob(i)
    \/ \E i \in 1..Len(tasks) : FpCheck(i)
    \/ \E i \in 1..Len(tasks) : DupRead(i)
    \/ \E i \in 1..Len(tasks) : DupWrite(i)
    \/ \E i \in 1..Len(tasks) : MarkSeen(i)
    \/ \E i \in 1..Len(tasks) : ReturnRow(i)
    \/ \E i \in 1..Len(tasks) : ErrRead(i)
    \/ \E i \in 1..Len(tasks) : ErrWrite(i)
    \/ \E i \in 1..Len(tasks) : ErrAppend(i)
    \/ \E i \in 1..Len(tasks) : ReturnNone(i)
    \/ Collect
    \/ FinishSource

Spec == Init /\ [][Next]_vars

(* the main thread and the pool's worker threads keep being scheduled, and
   every external call returns or times out: a run does not stop while a
   step is possible *)

(* the runs explored for progress: those of at most one Source, with a pool
   of no worker, of one worker and of the most workers, and two Sources in a
   row with at most one posting handed to the pool per Source *)
FairInit ==
    \/ InitWith({<<>>, <<SrcA>>}, SinkConfigs, {EmptyCache, SeededCache},
                {0, 1, MaxConcurrency})
    \/ /\ InitWith({<<SrcA, SrcB>>}, {<<FALSE, <<"sheet">> >>}, {EmptyCache}, {1})
       /\ max_jobs = <<1>>

FairSpec == FairInit /\ [][Next]_vars /\ WF_vars(Next)

----------------------------------------------------------------------------
(* The callers of run_pipeline: api/run_local.py execute and api/pipeline.py
   handler, applied to the payload run_pipeline returns *)

(* run_local.py lines 57-81: the response built from the payload; the errors
   key is present only for a non-empty list, the error key only when no
   Source was processed *)
execute(t, es) ==
    [totals |-> t,
     dryRun |-> dry_run,
     errors |-> es,
     error |-> IF es # <<>> /\ t.careers_processed = 0
               THEN <<IF es[1].message # "" THEN es[1].message
                      ELSE "Pipeline reported an error">>
               ELSE <<>>]

(* pipeline.py lines 40-53 *)
normalize_payload(result) ==
    [totals |-> result.totals, dryRun |-> result.dryRun, errors |-> result.errors,
     error |-> result.error]

(* pipeline.py lines 174-190: the HTTP response for a result of execute *)
handler(result) ==
    IF result.totals.careers_processed = 0 /\ result.errors # <<>>
    THEN [statusCode |-> 500,
          body |-> [normalize_payload(result) EXCEPT
                       !.error = IF result.error # <<>> THEN result.error
                                 ELSE <<IF result.errors[1].message # ""
                                        THEN result.errors[1].message
                                        ELSE "Pipeline reported an error">>]]
    ELSE [statusCode |-> 200, body |-> normalize_payload(result)]

(* run_local.py line 43: the ceiling of the hosted entry point *)
ConcurrencyCeiling == 4

(* the caller's value or the configured default, as it is *)
unclamped_concurrency(payload_concurrency, default_concurrency) ==
    IF payload_concurrency = <<>> \/ payload_concurrency[1] = 0
    THEN default_concurrency
    ELSE payload_concurrency[1]

(* run_local.py lines 38-43: parsed_concurrency is None for a missing or
   falsy payload value; 'parsed_concurrency or default_concurrency' then takes
   the configured default (4 when the configuration has none) *)
safe_concurrency(payload_concurrency, default_concurrency) ==
    LET parsed_concurrency == IF payload_concurrency = <<>> \/ payload_concurrency[1] = 0
                              THEN <<>>
                              ELSE payload_concurrency
        chosen == IF parsed_concurrency = <<>> \/ parsed_concurrency[1] = 0
                  THEN default_concurrency
                  ELSE parsed_concurrency[1]
    IN Min(chosen, ConcurrencyCeiling)

(* run_local.py lines 32-36: maxJobs of the payload is handed on only when
   it is positive *)
hosted_max_jobs(payload_max) ==
    IF payload_max # <<>> /\ payload_max[1] > 0 THEN payload_max ELSE <<>>

(* run_local.py lines 26-27 and 49: dryRun of the payload, or 'no sheetId in
   the payload' when it is absent; the sink identifier is the payload's or
   the configuration's, so each of the two goes with or without the other *)
HostedSinkConfigs == SinkConfigs \cup {<<TRUE, <<"sheet">> >>}

(* payload.get("concurrency"): absent, or an integer *)
PayloadConcurrency == { <<>>, <<0>>, <<-1>>, <<1>>, <<8>> }

(* runtime.concurrency of the configuration; 4 when the key is missing *)
DefaultConcurrency == { 2, 8 }

(* a run started by execute: the payload names one Source (a missing url is
   a ValueError before anything runs, lines 18-20, and resolve_input gives
   the list of that one URL), resume is off, a non-positive maxJobs is no
   maximum, and the concurrency handed to run_pipeline is the clamped one; the
   call's payload is kept in arg *)
HostedInit ==
    /\ PipeWith({<<SrcA>>}, HostedSinkConfigs, {EmptyCache, SeededCache},
                { safe_concurrency(c, d) : c \in PayloadConcurrency, d \in DefaultConcurrency })
    /\ ~resume
    /\ \E payload_max \in {<<>>} \cup {<<n>> : n \in LeastMaxJobs..MaxJobsCap} :
           max_jobs = hosted_max_jobs(payload_max)
    /\ GateStart
    /\ MemoStart
    /\ LLMStart
    /\ PageStart
    /\ fn = "execute"
    /\ arg \in [concurrency : PayloadConcurrency, default_concurrency : DefaultConcurrency]
    /\ ret = <<concurrency>>
    /\ concurrency = safe_concurrency(arg.concurrency, arg.default_concurrency)

HostedSpec == HostedInit /\ [][Next]_vars

----------------------------------------------------------------------------
(* The rate gate of one client instance (FirecrawlClient / OpenRouterClient:
   _enforce_rate_limit), called by the worker threads that share the client *)

(* fetch_page / _post_chat start by calling _enforce_rate_limit *)
EnterGate(c) ==
    /\ gpc[c] = "idle"
    /\ calls[c] < MaxCalls
    /\ calls' = [calls EXCEPT ![c] = @ + 1]
    /\ gpc' = [gpc EXCEPT ![c] = "read"]
    /\ UNCHANGED <<pipe_vars, fn_vars, memo_vars, llm_vars, page_vars, now, last_request_time, current_time, wake, request_time, passes>>

(* current_time = time.time() *)
ReadTime(c) ==
    /\ gpc[c] = "read"
    /\ current_time' = [current_time EXCEPT ![c] = now]
    /\ gpc' = [gpc EXCEPT ![c] = "compare"]
    /\ UNCHANGED <<pipe_vars, fn_vars, memo_vars, llm_vars, page_vars, now, last_request_time, wake, calls, request_time, passes>>

(* time_since_last is computed from the shared field; too early: sleep *)
Compare(c) ==
    /\ gpc[c] = "compare"
    /\ LET time_since_last == current_time[c] - last_request_time
           sleep_time == RateLimitDelay - time_since_last
       IN  IF time_since_last < RateLimitDelay
           THEN /\ wake' = [wake EXCEPT ![c] = now + sleep_time]
                /\ gpc' = [gpc EXCEPT ![c] = "sleep"]
           ELSE /\ wake' = wake
                /\ gpc' = [gpc EXCEPT ![c] = "stamp"]
    /\ UNCHANGED <<pipe_vars, fn_vars, memo_vars, llm_vars, page_vars, now, last_request_time, current_time, calls, request_time, passes>>

(* time.sleep(sleep_time) returns, no earlier than asked *)
WakeUp(c) ==
    /\ gpc[c] = "sleep"
    /\ now >= wake[c]
    /\ gpc' = [gpc EXCEPT ![c] = "stamp"]
    /\ UNCHANGED <<pipe_vars, fn_vars, memo_vars, llm_vars, page_vars, now, last_request_time, current_time, wake, calls, request_time, passes>>

(* self._last_request_time = time.time(), first half: the clock is read *)
Stamp(c) ==
    /\ gpc[c] = "stamp"
    /\ request_time' = [request_time EXCEPT ![c] = now]
    /\ gpc' = [gpc EXCEPT ![c] = "store"]
    /\ UNCHANGED <<pipe_vars, fn_vars, memo_vars, llm_vars, page_vars, now, last_request_time, current_time, wake, calls, passes>>

(* self._last_request_time = time.time(), second half: the value read is
   stored in the shared field; other callers may have run since the read *)
Store(c) ==
    /\ gpc[c] = "store"
    /\ last_request_time' = request_time[c]
    /\ gpc' = [gpc EXCEPT ![c] = "send"]
    /\ UNCHANGED <<pipe_vars, fn_vars, memo_vars, llm_vars, page_vars, now, current_time, wake, calls, request_time, passes>>

(* _enforce_rate_limit has returned: the caller sends its request *)
Send(c) ==
    /\ gpc[c] = "send"
    /\ passes' = Append(passes, [caller |-> c, at |-> now])
    /\ gpc' = [gpc EXCEPT ![c] = "idle"]
    /\ UNCHANGED <<pipe_vars, fn_vars, memo_vars, llm_vars, page_vars, now, last_request_time, current_time, wake, calls, request_time>>

Tick ==
    /\ now < MaxTime
    /\ now' = now + 1
    /\ UNCHANGED <<pipe_vars, fn_vars, memo_vars, llm_vars, page_vars, last_request_time, gpc, current_time, wake, calls, request_time, passes>>

(* the client alone: no pipeline run is going on *)
GateInit ==
    /\ InitWith({<<>>}, {<<TRUE, <<>> >>}, {EmptyCache}, {1})
    /\ ~resume
    /\ max_jobs = <<>>

GateNext ==
    \/ \E c \in Callers : EnterGate(c)
    \/ \E c \in Callers : ReadTime(c)
    \/ \E c \in Callers : Compare(c)
    \/ \E c \in Callers : WakeUp(c)
    \/ \E c \in Callers : Stamp(c)
    \/ \E c \in Callers : Store(c)
    \/ \E c \in Callers : Send(c)
    \/ Tick

GateSpec == GateInit /\ [][GateNext]_vars

----------------------------------------------------------------------------
(* One complete_json call of the OpenRouterClient (llm_client.py 60-139).  The
   rate gate _post_chat passes first is the subject of GateSpec. *)

(* the status of an HTTP response; 0 stands for no response at all (timeout,
   connection error) *)
ChatStatuses == {0, 200, 400, 429, 503}

(* the message content of a 200 response *)
Contents == {"{\"indices\": [0]}", "{\"urls\": 1}", "Here are the links"}

(* the body of a 200 response: <<c>> carries content c, <<>> has no
   choices[0].message.content *)
Replies == {<<c>> : c \in Contents} \cup {<<>>}

(* lines 119-130: json.loads, then jsonschema.validate against the schema *)
loads_validate(cleaned) ==
    CASE cleaned = "{\"indices\": [0]}" -> "ok"
      [] cleaned = "{\"urls\": 1}" -> "ValidationError"
      [] OTHER -> "JSONDecodeError"

(* str.strip() over the characters of a response: whitespace at both ends *)
RECURSIVE StripWs(_)
StripWs(s) ==
    IF s = <<>> THEN s
    ELSE IF Head(s) \in {" ", "\n"} THEN StripWs(Tail(s))
    ELSE IF s[Len(s)] \in {" ", "\n"} THEN StripWs(SubSeq(s, 1, Len(s) - 1))
    ELSE s

(* str.find for one character or for two in a row: the first place at or
   after from, 0 when there is none *)
Find(s, from, ch) ==
    IF \E i \in from..Len(s) : s[i] = ch
    THEN CHOOSE i \in from..Len(s) : s[i] = ch /\ \A j \in from..(i - 1) : s[j] # ch
    ELSE 0

FindPair(s, ch1, ch2) ==
    IF \E i \in 1..(Len(s) - 1) : s[i] = ch1 /\ s[i + 1] = ch2
    THEN CHOOSE i \in 1..(Len(s) - 1) :
            /\ s[i] = ch1 /\ s[i + 1] = ch2
            /\ \A j \in 1..(i - 1) : ~(s[j] = ch1 /\ s[j + 1] = ch2)
    ELSE 0

LanguageHints == {"json", "javascript", "ts", "text"}

(* lines 149-160: the text trimmed, and unfenced when the whole of it is
   fenced; "FENCE" is one character of the model *)
StripOuterFence(text) ==
    LET s == StripWs(text)
        inner == StripWs(SubSeq(s, 2, Len(s) - 1))
        first_newline == Find(inner, 1, "\n")
        first_line == StripWs(SubSeq(inner, 1, first_newline - 1))
    IN  IF s # <<>> /\ s[1] = "FENCE" /\ s[Len(s)] = "FENCE"
        THEN IF first_newline # 0 /\ Len(first_line) = 1 /\ Lower(first_line[1]) \in LanguageHints
             THEN StripWs(SubSeq(inner, first_newline + 1, Len(inner)))
             ELSE inner
        ELSE s

Opener(mode_closer) == IF mode_closer = "}" THEN "{" ELSE "["

(* lines 163-205: the brace-aware scan from character i on; <<start, end>>
   of the span it returns, <<>> when the loop ends without returning *)
RECURSIVE BraceScan(_, _, _, _, _, _, _)
BraceScan(s, i, start_idx, depth, mode_closer, in_string, escape) ==
    IF i > Len(s) THEN <<>>
    ELSE IF start_idx = 0
    THEN IF s[i] = "{" THEN BraceScan(s, i + 1, i, 1, "}", FALSE, FALSE)
         ELSE IF s[i] = "[" THEN BraceScan(s, i + 1, i, 1, "]", FALSE, FALSE)
         ELSE BraceScan(s, i + 1, 0, 0, "", FALSE, FALSE)
    ELSE IF in_string
    THEN IF escape THEN BraceScan(s, i + 1, start_idx, depth, mode_closer, TRUE, FALSE)
         ELSE IF s[i] = "\\" THEN BraceScan(s, i + 1, start_idx, depth, mode_closer, TRUE, TRUE)
         ELSE IF s[i] = "\"" THEN BraceScan(s, i + 1, start_idx, depth, mode_closer, FALSE, FALSE)
         ELSE BraceScan(s, i + 1, start_idx, depth, mode_closer, TRUE, FALSE)
    ELSE IF s[i] = "\"" THEN BraceScan(s, i + 1, start_idx, depth, mode_closer, TRUE, FALSE)
    ELSE IF s[i] = Opener(mode_closer)
         THEN BraceScan(s, i + 1, start_idx, depth + 1, mode_closer, FALSE, FALSE)
    ELSE IF s[i] = mode_closer
         THEN IF depth = 1 THEN <<start_idx, i>>
              ELSE BraceScan(s, i + 1, start_idx, depth - 1, mode_closer, FALSE, FALSE)
    ELSE BraceScan(s, i + 1, start_idx, depth, mode_closer, FALSE, FALSE)

(* lines 207-213: the content of a block fenced as json, <<>> for none *)
FencedJson(s) ==
    LET fence_start == FindPair(s, "FENCE", "json")
        fence_end == IF fence_start = 0 THEN 0 ELSE Find(s, fence_start + 2, "FENCE")
    IN  IF fence_end # 0
        THEN <<StripWs(SubSeq(s, fence_start + 2, fence_end - 1))>>
        ELSE <<>>

(* lines 142-215 *)
extract_json_text(text) ==
    LET s == StripOuterFence(text)
        span == BraceScan(s, 1, 0, 0, "", FALSE, FALSE)
    IN  IF span # <<>> THEN SubSeq(s, span[1], span[2])
        ELSE IF FencedJson(s) # <<>> THEN FencedJson(s)[1]
        ELSE s

Ending(kind, obj, error) == <<[kind |-> kind, obj |-> obj, error |-> error]>>

(* an exception leaves _post_chat and, uncaught, complete_json *)
Propagate(kind) ==
    /\ lpc' = "raised"
    /\ outcome' = Ending(kind, "", <<>>)
    /\ UNCHANGED <<retries_budget, attempts, last_error, directives, content, verdicts, sleeps>>

(* lines 98-100: the body of a successful response is read *)
Receive(data) ==
    IF data = <<>>
    THEN Propagate("KeyError")
    ELSE /\ content' = data[1]
         /\ lpc' = "parse"
         /\ UNCHANGED <<retries_budget, attempts, last_error, directives, verdicts, sleeps,
                        outcome>>

Request(retry, status) ==
    [attempt |-> attempts, retry |-> retry, status |-> status, directives |-> directives]

(* a loop that grants one attempt more than the budget *)
BudgetLeftOneMore == attempts <= retries_budget + 1

(* line 109: while attempts <= retries_budget *)
BudgetLeft == attempts <= retries_budget

(* lines 105-110 and 139: the loop test; a new attempt, or the final error *)
LoopTest ==
    /\ lpc = "loop"
    /\ IF BudgetLeft
       THEN /\ attempts' = attempts + 1
            /\ lpc' = "post"
            /\ UNCHANGED outcome
       ELSE /\ lpc' = "raised"
            /\ outcome' = Ending("LLM failed to produce valid JSON after retries", "",
                                 last_error)
            /\ UNCHANGED attempts
    /\ UNCHANGED <<pipe_vars, fn_vars, memo_vars, gate_vars, page_vars, retries_budget, last_error, directives, content,
                   requests, verdicts, sleeps>>

(* lines 78-97: the request of _post_chat and what its status leads to *)
PostChat ==
    /\ lpc = "post"
    /\ \E status \in ChatStatuses :
         /\ requests' = Append(requests, Request(FALSE, status))
         /\ IF status = 200 THEN \E data \in Replies : Receive(data)
            ELSE IF status = 429
            THEN /\ lpc' = "cooldown"
                 /\ sleeps' = Append(sleeps, [why |-> "rate limit", attempts |-> attempts])
                 /\ UNCHANGED <<retries_budget, attempts, last_error, directives, content,
                                verdicts, outcome>>
            ELSE IF status = 0 THEN Propagate("TransportError")
            ELSE Propagate("OpenRouter chat completion failed")
    /\ UNCHANGED <<pipe_vars, fn_vars, memo_vars, gate_vars, page_vars>>

(* lines 85-87: after the sleep the request is sent once more *)
RetryChat ==
    /\ lpc = "cooldown"
    /\ \E status \in ChatStatuses :
         /\ requests' = Append(requests, Request(TRUE, status))
         /\ IF status = 200 THEN \E data \in Replies : Receive(data)
            ELSE IF status = 0 THEN Propagate("TransportError")
            ELSE Propagate("HTTPStatusError")
    /\ UNCHANGED <<pipe_vars, fn_vars, memo_vars, gate_vars, page_vars>>

(* lines 118-138: the content is cleaned, parsed and validated *)
ParseContent ==
    /\ lpc = "parse"
    /\ \E verdict \in {loads_validate(content)} :
         /\ verdicts' = Append(verdicts, [attempt |-> attempts, content |-> content,
                                          verdict |-> verdict])
         /\ IF verdict = "ok"
            THEN /\ lpc' = "returned"
                 /\ outcome' = Ending("return", content, <<>>)
                 /\ UNCHANGED <<last_error, directives, sleeps>>
            ELSE IF verdict = "JSONDecodeError"
            THEN /\ lpc' = "loop"
                 /\ last_error' = <<[attempt |-> attempts, error |-> verdict]>>
                 /\ UNCHANGED <<directives, sleeps, outcome>>
            ELSE /\ lpc' = "loop"
                 /\ last_error' = <<[attempt |-> attempts, error |-> verdict]>>
                 /\ directives' = directives + 1
                 /\ sleeps' = Append(sleeps, [why |-> "backoff", attempts |-> attempts])
                 /\ UNCHANGED outcome
    /\ UNCHANGED <<pipe_vars, fn_vars, memo_vars, gate_vars, page_vars, retries_budget, attempts, content, requests>>

(* complete_json is called with a retry budget; the client default is 4 and
   run_pipeline passes none of its own *)
LLMInit ==
    /\ PipeWith({<<>>}, {<<TRUE, <<>> >>}, {EmptyCache}, {1})
    /\ ~resume
    /\ max_jobs = <<>>
    /\ GateStart
    /\ MemoStart
    /\ PageStart
    /\ FnStart
    /\ lpc = "loop"
    /\ retries_budget \in 0..MaxRetries
    /\ attempts = 0
    /\ last_error = <<>>
    /\ directives = 0
    /\ content = ""
    /\ requests = <<>>
    /\ verdicts = <<>>
    /\ sleeps = <<>>
    /\ outcome = <<>>

LLMNext ==
    \/ LoopTest
    \/ PostChat
    \/ RetryChat
    \/ ParseContent

LLMSpec == LLMInit /\ [][LLMNext]_vars

(* the calling thread keeps running, and every request is answered or times
   out (timeout_seconds) *)
LLMFairSpec == LLMInit /\ [][LLMNext]_vars /\ WF_vars(LLMNext)

----------------------------------------------------------------------------
(* One fetch_page call of the FirecrawlClient (firecrawl_client.py 66-155).
   The rate gate it passes first is the subject of GateSpec. *)

(* the status of an HTTP response; 0 stands for no response at all *)
PageStatuses == {0, 200, 302, 404, 429, 500, 503}

(* resp.raise_for_status() passes *)
IsSuccess(status) == status \in 200..299

RawLink(is_str, href, text) == [is_str |-> is_str, href |-> href, text |-> text]

(* data objects a response can carry: html, links as strings or as
   href/text objects, metadata *)
DataObjects ==
    { [html |-> <<"Engineer", "Remote">>,
       links |-> << RawLink(TRUE, JobA, <<>>), RawLink(FALSE, <<>>, <<"Apply">>),
                    RawLink(FALSE, JobH, <<"Apply">>) >>,
       canonical |-> JobA],
      [html |-> <<>>, links |-> <<>>, canonical |-> <<>>] }

Body(is_json, is_dict, success, error, data) ==
    [is_json |-> is_json, is_dict |-> is_dict, success |-> success, error |-> error,
     data |-> data]

(* response bodies: not JSON at all; a JSON list; objects with the success
   flag true, absent or false, with and without an error text, with and
   without a data object *)
Bodies ==
    { Body(FALSE, FALSE, <<>>, "", <<>>),
      Body(TRUE, FALSE, <<>>, "", <<>>),
      Body(TRUE, TRUE, <<FALSE>>, "blocked", <<>>),
      Body(TRUE, TRUE, <<FALSE>>, "", <<>>),
      Body(TRUE, TRUE, <<TRUE>>, "", <<>>) }
    \cup { Body(TRUE, TRUE, flag, "", <<d>>) : flag \in {<<>>, <<TRUE>>}, d \in DataObjects }

(* lines 39-55 *)
RECURSIVE normalize_links(_)
normalize_links(raw_links) ==
    IF raw_links = <<>> THEN <<>>
    ELSE LET item == Head(raw_links)
         IN  IF item.is_str
             THEN <<Anchor(item.href, <<>>)>> \o normalize_links(Tail(raw_links))
             ELSE IF item.href # <<>>
             THEN <<Anchor(item.href, item.text)>> \o normalize_links(Tail(raw_links))
             ELSE normalize_links(Tail(raw_links))

PageEnding(kind, message, page) == <<[kind |-> kind, message |-> message, page |-> page]>>

PageRaise(kind, message) ==
    /\ fpc' = "raised"
    /\ page_outcome' = PageEnding(kind, message, <<>>)

(* lines 92-100 and 132-155: the body of a 2xx response is parsed, checked
   and turned into the page *)
ReadBody(data_json) ==
    IF ~data_json.is_json
    THEN PageRaise("ValueError", "Failed to parse Firecrawl JSON response")
    ELSE IF ~data_json.is_dict
    THEN PageRaise("ValueError", "Unexpected response type from Firecrawl")
    ELSE IF data_json.success = <<FALSE>>
    THEN PageRaise("ValueError",
                   IF data_json.error # "" THEN data_json.error
                   ELSE "Firecrawl returned success=false")
    ELSE /\ fpc' = "returned"
         /\ page_outcome' =
                PageEnding("return", "",
                    IF data_json.data = <<>>
                    THEN <<[html |-> <<>>, links |-> <<>>, canonical |-> <<>>]>>
                    ELSE <<[html |-> data_json.data[1].html,
                            links |-> normalize_links(data_json.data[1].links),
                            canonical |-> data_json.data[1].canonical]>>)

(* history: a request, the status of its response and the body of a 2xx
   response *)
Response(retry, status, body) == [retry |-> retry, status |-> status, body |-> body]

(* a client that repeats the request after any error status *)
RetriesOnAnyError(status) == status >= 400

(* lines 103 and 116: the statuses after which the request is repeated *)
RetriesOn(status) == status = 429 \/ status >= 500

(* lines 86-130: the first request and what its response leads to *)
PagePost ==
    /\ fpc = "post"
    /\ \E status \in PageStatuses :
         IF IsSuccess(status)
         THEN \E data_json \in Bodies :
                /\ page_requests' = Append(page_requests,
                                           Response(FALSE, status, <<data_json>>))
                /\ ReadBody(data_json)
                /\ UNCHANGED page_sleeps
         ELSE /\ page_requests' = Append(page_requests, Response(FALSE, status, <<>>))
              /\ IF status # 0 /\ RetriesOn(status)
                 THEN /\ fpc' = "cooldown"
                      /\ page_sleeps' = Append(page_sleeps,
                                               IF status = 429 THEN "rate limit"
                                               ELSE "server error")
                      /\ UNCHANGED page_outcome
                 ELSE /\ PageRaise(IF status = 0 THEN "TransportError"
                                   ELSE "HTTPStatusError", "")
                      /\ UNCHANGED page_sleeps
    /\ UNCHANGED <<pipe_vars, fn_vars, memo_vars, gate_vars, llm_vars, page_url>>

(* lines 105-115 and 118-128: after the sleep the request is sent once more *)
PageRetry ==
    /\ fpc = "cooldown"
    /\ \E status \in PageStatuses :
         IF IsSuccess(status)
         THEN \E data_json \in Bodies :
                /\ page_requests' = Append(page_requests,
                                           Response(TRUE, status, <<data_json>>))
                /\ ReadBody(data_json)
         ELSE /\ page_requests' = Append(page_requests, Response(TRUE, status, <<>>))
              /\ PageRaise(IF status = 0 THEN "TransportError" ELSE "HTTPStatusError", "")
    /\ UNCHANGED <<pipe_vars, fn_vars, memo_vars, gate_vars, llm_vars, page_url, page_sleeps>>

(* fetch_page is called for a Source page, a job page or a board page *)
PageInit ==
    /\ PipeWith({<<>>}, {<<TRUE, <<>> >>}, {EmptyCache}, {1})
    /\ ~resume
    /\ max_jobs = <<>>
    /\ GateStart
    /\ MemoStart
    /\ LLMStart
    /\ FnStart
    /\ fpc = "post"
    /\ page_url \in {SrcA, JobA, JobH, Board}
    /\ page_requests = <<>>
    /\ page_sleeps = <<>>
    /\ page_outcome = <<>>

PageNext ==
    \/ PagePost
    \/ PageRetry

PageSpec == PageInit /\ [][PageNext]_vars

----------------------------------------------------------------------------
(* The pure functions of the pipeline, each called once on arguments drawn
   from a bounded set *)

(* the world around a function call: no run, no client call under way *)
Quiet ==
    /\ PipeWith({<<>>}, {<<TRUE, <<>> >>}, {EmptyCache}, {1})
    /\ ~resume
    /\ max_jobs = <<>>
    /\ GateStart
    /\ MemoStart
    /\ LLMStart
    /\ PageStart

(* hrefs as they come from a page: empty, fragment-only, relative, absolute,
   scheme-relative, and with schemes that are not http(s) *)
UrlInputs ==
    { <<>>, <<"#top">>, <<"1">>, <<"/jobs/", "1">>, <<"/jobs/", "2">>, JobA,
      <<"//acme.com", "/jobs/", "1">>, MailTo, <<"tel:", "+1555">>,
      <<"javascript:", "void(0)">> }

AbsolutizeArgs == [urls : SeqsUpTo(UrlInputs, MaxUrls), base_url : {SrcA, BoardQ}]

Returns(value) ==
    /\ ret = <<>>
    /\ ret' = <<value>>
    /\ UNCHANGED <<pipe_vars, gate_vars, llm_vars, page_vars, memo_vars, fn, arg>>

CallAbsolutize ==
    /\ fn = "absolutize_and_dedupe_urls"
    /\ Returns(absolutize_and_dedupe_urls(arg.urls, arg.base_url))

(* texts a URL, a title or a company name can be, the separator included *)
FpTexts == { <<>>, <<"Engineer">>, <<"Acme">>, <<"||">>, <<"Engineer", "||", "Acme">> }

FpTriples == [canonical_url : FpTexts, title : FpTexts, company : FpTexts]

(* two calls of fingerprint, one after the other *)
FingerprintArgs == [first : FpTriples, second : FpTriples]

CallFingerprint ==
    /\ fn = "fingerprint"
    /\ Returns(<< fingerprint(arg.first.canonical_url, arg.first.title, arg.first.company),
                  fingerprint(arg.second.canonical_url, arg.second.title, arg.second.company) >>)

(* chunks of an employment-type text *)
JobTypeTokens == { "Full-Time", "full time", "Permanent", "PART-TIME", "Part Time",
                   "Software Engineering Internship", "intern", "Co-op",
                   "International", "contract", " " }

JobTypeTexts == SeqsUpTo(JobTypeTokens, MaxWords)

(* whitespace-separated chunks of page markup *)
MarkupTokens == { "Remote", "remote", "remotely", "remote_first", "non-remote",
                  "Work From Anywhere", "WFH", "Hybrid", "hybrid-friendly",
                  "on-site", "<p>" }

Markups == SeqsUpTo(MarkupTokens, MaxWords)

(* the fields of an extraction tier before post-processing *)
PostprocessArgs ==
    [fields : { [OracleFields(JobA) EXCEPT !.remote_ok = r, !.job_type = jt] :
                    r \in {<<>>, <<TRUE>>, <<FALSE>>}, jt \in SeqsUpTo(JobTypeTokens, 1) },
     page_html : Markups]

CallNormalizeJobType ==
    /\ fn = "normalize_job_type"
    /\ Returns(normalize_job_type(arg.value))

CallPostprocess ==
    /\ fn = "postprocess_fields"
    /\ Returns(postprocess_fields(arg.fields, <<>>, arg.page_html, JobA, <<>>))

(* a Source page of n anchors that are no postings, but for anchor at *)
LongPage(n, at, special) ==
    [i \in 1..n |-> IF i = at THEN special ELSE Anchor(<<"/about">>, <<"About">>)]

(* a Source page of n postings, each with its own href, which only the
   oracle recognises as postings *)
JobsPage(n) == [i \in 1..n |-> Anchor(<<"/x", ToString(i)>>, <<"Engineer">>)]

SpecialAnchors == { Anchor(<<"/jobs/", "1">>, <<"Engineer">>), Anchor(Board, <<"Open roles">>),
                   Anchor(<<"/x">>, <<"Apply">>) }

(* pages with a posting or board link at the first, the last considered and
   the first unconsidered place, and pages of postings only *)
LongPages ==
    { LongPage(AnchorLimit + 1, at, a) : at \in {1, AnchorLimit, AnchorLimit + 1},
                                         a \in SpecialAnchors }
    \cup { JobsPage(n) : n \in {ManySelected - 1, AnchorLimit + 2} }

(* the indices 0 .. n-1 in order *)
FirstIndices(n) == [i \in 1..n |-> i - 1]

(* answers of the Tier 1 oracle: none, single ones around both ends of the
   range, and long ones with and without an index out of range *)
Selections ==
    { <<>>, <<0>>, <<-1>>, <<AnchorLimit - 1>>, <<AnchorLimit>>, <<AnchorLimit + 1, 0, -1>>,
      FirstIndices(ManySelected), FirstIndices(ManySelected) \o <<AnchorLimit>> }

SelectArgs == [anchors : LongPages, selected_indices : Selections, careers_url : {SrcA}]

(* jobs_pipeline.py lines 111-206: truncation, Tier 1 mapping, Tier 2,
   absolutization and the board links Tier 3 would use *)
select_candidates(anchors, selected_indices, careers_url) ==
    LET first_anchors == limited(anchors)
        raw == raw_urls(selected_indices, first_anchors)
        job_urls == absolutize_and_dedupe_urls(raw, careers_url)
    IN  [limited_anchors |-> first_anchors,
         tier1 |-> Tier1Urls(selected_indices, first_anchors),
         raw_urls |-> raw,
         job_urls |-> job_urls,
         board_links |-> IF Tier3Runs(job_urls)
                         THEN board_links(first_anchors, careers_url)
                         ELSE <<>>]

CallSelect ==
    /\ fn = "select_candidates"
    /\ Returns(select_candidates(arg.anchors, arg.selected_indices, arg.careers_url))

(* a JSON value of the BambooHR answer: null or a missing key, a string
   (its characters) or a number *)
JNull == <<"null", <<>> >>
JStr(chars) == <<"str", chars>>
JNum(digits) == <<"num", digits>>

(* lines 137-143 *)
first_non_empty(values) ==
    LET stripped == [i \in 1..Len(values) |-> StripWs(values[i][2])]
        usable == { i \in 1..Len(values) : values[i][1] = "str" /\ stripped[i] # <<>> }
    IN  IF usable = {} THEN <<>>
        ELSE stripped[CHOOSE i \in usable : \A j \in usable : i <= j]

(* ", ".join(parts) *)
RECURSIVE JoinComma(_)
JoinComma(parts) ==
    IF parts = <<>> THEN <<>>
    ELSE IF Len(parts) = 1 THEN parts[1]
    ELSE parts[1] \o <<", ">> \o JoinComma(Tail(parts))

InParts(x, parts) == \E i \in 1..Len(parts) : parts[i] = x

(* a missing or null location object reads as {} (lines 118-119) *)
LocationOf(obj, keys) ==
    IF obj = <<>> THEN [k \in keys |-> JNull] ELSE obj[1]

LocationKeys == {"city", "state", "addressCountry"}
AtsLocationKeys == {"city", "state", "province", "country", "countryId"}

compose_location_country_always(job_opening) ==
    LET location == LocationOf(job_opening.location, LocationKeys)
        ats_location == LocationOf(job_opening.atsLocation, AtsLocationKeys)
        city == first_non_empty(<<location.city, ats_location.city>>)
        state == first_non_empty(<<location.state, ats_location.state, ats_location.province>>)
        country == first_non_empty(<<location.addressCountry, ats_location.country,
                                     ats_location.countryId>>)
        parts == SelectSeq(<<city, state>>, LAMBDA part : part # <<>>)
    IN  JoinComma(IF country # <<>> THEN Append(parts, country) ELSE parts)

(* lines 117-134 *)
compose_location(job_opening) ==
    LET location == LocationOf(job_opening.location, LocationKeys)
        ats_location == LocationOf(job_opening.atsLocation, AtsLocationKeys)
        city == first_non_empty(<<location.city, ats_location.city>>)
        state == first_non_empty(<<location.state, ats_location.state, ats_location.province>>)
        country == first_non_empty(<<location.addressCountry, ats_location.country,
                                     ats_location.countryId>>)
        parts == SelectSeq(<<city, state>>, LAMBDA part : part # <<>>)
    IN  JoinComma(IF parts = <<>> /\ country # <<>> THEN Append(parts, country)
                  ELSE IF country # <<>> /\ ~InParts(country, parts) THEN Append(parts, country)
                  ELSE parts)

(* the values tried in the posting's location and in its ATS location *)
LocationValues ==
    {JNull, JStr(<<" ">>), JStr(<<" ", "Singapore">>), JStr(<<"Fairview">>), JNum(<<"7">>)}
AtsValues == {JNull, JStr(<<"Singapore">>), JStr(<<"Remote">>)}

JobOpenings ==
    [location : {<<>>} \cup { <<l>> : l \in [LocationKeys -> LocationValues] },
     atsLocation : {<<>>} \cup { <<l>> : l \in [AtsLocationKeys -> AtsValues] }]

CallComposeLocation ==
    /\ fn = "_compose_location"
    /\ Returns(compose_location(arg))

(* the characters of an oracle response *)
JsonChars == {"{", "}", "[", "]", "\"", "\\", "a", "\n", "FENCE", "json"}

CallExtractJson ==
    /\ fn = "_extract_json_text"
    /\ Returns(extract_json_text(arg.text))

FnInit ==
    /\ Quiet
    /\ ret = <<>>
    /\ \/ fn = "absolutize_and_dedupe_urls" /\ arg \in AbsolutizeArgs
       \/ fn = "fingerprint" /\ arg \in FingerprintArgs
       \/ fn = "normalize_job_type" /\ arg \in [value : JobTypeTexts]
       \/ fn = "postprocess_fields" /\ arg \in PostprocessArgs
       \/ fn = "select_candidates" /\ arg \in SelectArgs
       \/ fn = "_compose_location" /\ arg \in JobOpenings
       \/ fn = "_extract_json_text" /\ arg \in [text : SeqsUpTo(JsonChars, MaxChars)]

FnNext ==
    \/ CallAbsolutize
    \/ CallFingerprint
    \/ CallNormalizeJobType
    \/ CallPostprocess
    \/ CallSelect
    \/ CallExtractJson
    \/ CallComposeLocation

FnSpec == FnInit /\ [][FnNext]_vars

----------------------------------------------------------------------------
(* BambooHRParser.parse_job called by the threads of a pool: the two
   endpoints behind functools.lru_cache (utils/ats/bamboohr.py).  lru_cache
   looks the key up and stores the result under its own lock, and calls the
   wrapped function in between with no lock held; a call that raises stores
   nothing, and a result whose key another thread has stored meanwhile is
   returned without replacing the stored one. *)

Job9 == <<"https:", "//acme.bamboohr.com", "/careers/", "9">>

JobHApply == JobH \o <<"/apply">>

(* postings of one board: two job ids, one of them under two URLs *)
BambooUrls == {JobH, JobHApply, Job9}

(* lines 14-26: (base_url, job_id) of a posting URL, <<>> for None *)
is_bamboohr_job_url(url) ==
    IF can_handle(url)
    THEN <<[base_url |-> <<url[1], url[2]>>, job_id |-> url[4]]>>
    ELSE <<>>

DetailKey(url) ==
    <<is_bamboohr_job_url(url)[1].base_url, is_bamboohr_job_url(url)[1].job_id>>

InfoKey(url) == is_bamboohr_job_url(url)[1].base_url

(* what a request to the detail endpoint can give: an error (HTTP error,
   invalid JSON, no 'result' dict: _fetch_job_detail raises), a result with a
   'jobOpening' dict, or a result without one *)
DetailPayloads == {"failed", "opening", "bare"}

AtsFetch(w, endpoint, key, ok) == [thread |-> w, endpoint |-> endpoint, key |-> key, ok |-> ok]

(* lines 38-42: parse_job is called and the URL matched *)
ParseJob(w) ==
    /\ apc[w] = "idle"
    /\ ats_calls[w] < MaxCalls
    /\ \E url \in BambooUrls :
         /\ is_bamboohr_job_url(url) # <<>>
         /\ aurl' = [aurl EXCEPT ![w] = url]
    /\ ats_calls' = [ats_calls EXCEPT ![w] = @ + 1]
    /\ apc' = [apc EXCEPT ![w] = "detail"]
    /\ UNCHANGED <<pipe_vars, gate_vars, llm_vars, page_vars, fn_vars, job_detail_memo,
                   company_info_memo, aresult, ats_fetches>>

(* lines 44-46: parse_job goes on with a detail payload that has a
   'jobOpening' dict and raises ValueError for one that has none *)
AfterDetail(payload) == IF payload = "opening" THEN "info" ELSE "idle"

(* line 43, lru_cache wrapper of _fetch_job_detail: the key is looked up; on
   a hit the stored payload is returned and parse_job tests it (44-46) *)
DetailLookup(w) ==
    /\ apc[w] = "detail"
    /\ apc' = [apc EXCEPT ![w] = IF DetailKey(aurl[w]) \in DOMAIN job_detail_memo
                                 THEN AfterDetail(job_detail_memo[DetailKey(aurl[w])])
                                 ELSE "detail_fetch"]
    /\ UNCHANGED <<pipe_vars, gate_vars, llm_vars, page_vars, fn_vars, job_detail_memo,
                   company_info_memo, aurl, aresult, ats_calls, ats_fetches>>

(* lines 79-85: the detail endpoint is fetched with no lock held; an error
   leaves parse_job, a result dict goes back to the wrapper *)
DetailFetch(w) ==
    /\ apc[w] = "detail_fetch"
    /\ \E payload \in DetailPayloads :
         /\ ats_fetches' = Append(ats_fetches, AtsFetch(w, "detail", DetailKey(aurl[w]),
                                                        payload # "failed"))
         /\ aresult' = [aresult EXCEPT ![w] = IF payload = "failed" THEN <<>>
                                              ELSE <<payload>>]
         /\ apc' = [apc EXCEPT ![w] = IF payload = "failed" THEN "idle"
                                      ELSE "detail_store"]
    /\ UNCHANGED <<pipe_vars, gate_vars, llm_vars, page_vars, fn_vars, job_detail_memo,
                   company_info_memo, aurl, ats_calls>>

(* the wrapper stores the result, with or without 'jobOpening', unless the
   key was stored meanwhile, and returns it; parse_job tests it (44-46) *)
DetailStore(w) ==
    /\ apc[w] = "detail_store"
    /\ LET key == DetailKey(aurl[w])
       IN  job_detail_memo' =
               IF key \in DOMAIN job_detail_memo THEN job_detail_memo
               ELSE [k \in DOMAIN job_detail_memo \cup {key} |->
                        IF k = key THEN aresult[w][1] ELSE job_detail_memo[k]]
    /\ apc' = [apc EXCEPT ![w] = AfterDetail(aresult[w][1])]
    /\ aresult' = [aresult EXCEPT ![w] = <<>>]
    /\ UNCHANGED <<pipe_vars, gate_vars, llm_vars, page_vars, fn_vars, company_info_memo,
                   aurl, ats_calls, ats_fetches>>

(* line 47, lru_cache wrapper of _fetch_company_info: the key is looked up;
   on a hit parse_job maps the fields and returns (48-54) *)
InfoLookup(w) ==
    /\ apc[w] = "info"
    /\ apc' = [apc EXCEPT ![w] = IF InfoKey(aurl[w]) \in company_info_memo
                                 THEN "idle" ELSE "info_fetch"]
    /\ UNCHANGED <<pipe_vars, gate_vars, llm_vars, page_vars, fn_vars, job_detail_memo,
                   company_info_memo, aurl, aresult, ats_calls, ats_fetches>>

(* lines 70-76: the company-info endpoint is fetched with no lock held; an
   error leaves parse_job, a result dict goes back to the wrapper *)
InfoFetch(w) ==
    /\ apc[w] = "info_fetch"
    /\ \E ok \in BOOLEAN :
         /\ ats_fetches' = Append(ats_fetches, AtsFetch(w, "company-info", InfoKey(aurl[w]), ok))
         /\ apc' = [apc EXCEPT ![w] = IF ok THEN "info_store" ELSE "idle"]
    /\ UNCHANGED <<pipe_vars, gate_vars, llm_vars, page_vars, fn_vars, job_detail_memo,
                   company_info_memo, aurl, aresult, ats_calls>>

(* the wrapper stores the result and returns it; parse_job maps the fields
   and returns (48-54) *)
InfoStore(w) ==
    /\ apc[w] = "info_store"
    /\ company_info_memo' = company_info_memo \cup {InfoKey(aurl[w])}
    /\ apc' = [apc EXCEPT ![w] = "idle"]
    /\ UNCHANGED <<pipe_vars, gate_vars, llm_vars, page_vars, fn_vars, job_detail_memo,
                   aurl, aresult, ats_calls, ats_fetches>>

(* the parser alone: no pipeline run is going on *)
MemoInit ==
    /\ InitWith({<<>>}, {<<TRUE, <<>> >>}, {EmptyCache}, {1})
    /\ ~resume
    /\ max_jobs = <<>>

MemoNext ==
    \/ \E w \in ParseThreads : ParseJob(w)
    \/ \E w \in ParseThreads : DetailLookup(w)
    \/ \E w \in ParseThreads : DetailFetch(w)
    \/ \E w \in ParseThreads : DetailStore(w)
    \/ \E w \in ParseThreads : InfoLookup(w)
    \/ \E w \in ParseThreads : InfoFetch(w)
    \/ \E w \in ParseThreads : InfoStore(w)

MemoSpec == MemoInit /\ [][MemoNext]_vars

----------------------------------------------------------------------------
(* Properties *)

(* two process_job calls that ended one right after the other, on the same
   candidate *)
SameCandidateTwice(k) ==
    /\ joblog[k].url = joblog[k + 1].url
    /\ joblog[k].fp # <<>>
    /\ joblog[k].fp = joblog[k + 1].fp

(* C1: with resume mode off, when the same candidate (same URL, same
   fingerprint) is processed twice one after the other against one cache and
   the first processing returned a row, that first processing wrote exactly
   one CacheRecord; the second wrote none, returned no row, was counted as a
   duplicate, moved totals.duplicates by exactly 1, and the cache holds
   exactly one record with that fingerprint. *)
C1_DedupIdempotence ==
    ~resume =>
        \A k \in 1..(Len(joblog) - 1) :
            (SameCandidateTwice(k) /\ joblog[k].out = "row") =>
                /\ joblog[k].wrote = 1
                /\ joblog[k].held = 1
                /\ joblog[k + 1].out = "dup"
                /\ joblog[k + 1].wrote = 0
                /\ joblog[k + 1].dup_inc = 1
                /\ joblog[k + 1].held = 1

(* JobA reached from two Sources in a row: stored once, then a duplicate *)
C1_Witness ==
    /\ ~resume
    /\ \E k \in 1..(Len(joblog) - 1) :
           /\ SameCandidateTwice(k)
           /\ joblog[k].out = "row"
           /\ joblog[k + 1].out = "dup"
           /\ joblog[k].src < joblog[k + 1].src

(* no two CacheRecords stored under different URLs carry the same fingerprint *)
FingerprintsUnique ==
    \A u, v \in DOMAIN cache :
        u # v => cache[u].fingerprint # cache[v].fingerprint

(* the record written by the k-th process_job was replaced before the m-th *)
Superseded(k, m) ==
    \E j \in (k + 1)..(m - 1) :
        joblog[j].url = joblog[k].url /\ joblog[j].wrote = 1

(* a posting reached through a second URL while its record is in the cache
   is a duplicate *)
SecondUrlDetected ==
    \A k, m \in 1..Len(joblog) :
        (/\ k < m
         /\ joblog[k].fp # <<>>
         /\ joblog[k].fp = joblog[m].fp
         /\ joblog[k].url # joblog[m].url
         /\ joblog[k].out = "row"
         /\ ~Superseded(k, m)) => joblog[m].out = "dup"

(* C2 as stated: in every reachable state, also with several workers, no two
   CacheRecords under different URLs share a fingerprint, and the second
   occurrence of a posting is detected as a duplicate. *)
C2_AsStated == FingerprintsUnique /\ SecondUrlDetected

(* C2, amended: when the pool of a Source has a single worker, no two
   CacheRecords under different URLs share a fingerprint and a posting reached
   through a second URL is detected as a duplicate. *)
C2_SingleWorker == concurrency = 1 => (FingerprintsUnique /\ SecondUrlDetected)

(* one worker: JobA stored, then JobH (the same posting) found a duplicate *)
C2_Witness ==
    /\ concurrency = 1
    /\ \E k, m \in 1..Len(joblog) :
           /\ k < m
           /\ joblog[k].fp = joblog[m].fp
           /\ joblog[k].url # joblog[m].url
           /\ joblog[k].out = "row"
           /\ joblog[m].out = "dup"

(* the pool of the current Source has drained and its results are collected *)
Drained ==
    /\ mpc = "pool"
    /\ \A i \in 1..Len(tasks) : tasks[i].pc = "done"
    /\ Len(results) = Len(tasks)

Ended(out) == {i \in 1..Len(tasks) : tasks[i].out = out}

(* the ErrorEntries appended since the pool was created *)
BatchEntries == SubSeq(errors, pool_base.entries + 1, Len(errors))

(* siblings of a failing candidate complete and their rows are in the batch;
   the failing candidate leaves one "job" ErrorEntry with its URL and no row *)
SiblingsUnaffected ==
    /\ \A i \in 1..Len(tasks) : tasks[i].out \in {"row", "dup", "skip", "err"}
    /\ \A i \in Ended("row") : tasks[i].res # <<>>
    /\ Rows(results) = Rows([i \in 1..Len(tasks) |-> tasks[i].res])
    /\ Len(Rows(results)) = Cardinality(Ended("row"))
    /\ Len(BatchEntries) = Cardinality(Ended("err"))
    /\ \A i \in Ended("err") :
           /\ tasks[i].res = <<>>
           /\ Cardinality({k \in 1..Len(BatchEntries) :
                              /\ BatchEntries[k].scope = "job"
                              /\ BatchEntries[k].url = tasks[i].url}) = 1

(* C3 as stated: when the pool of a Source has drained, every candidate of
   the batch has run to completion, every sibling that produced a row is in
   the row batch, and each candidate that raised has contributed exactly one
   errors increment, one ErrorEntry with scope "job" and its URL, and no
   row. *)
C3_AsStated ==
    Drained =>
        /\ SiblingsUnaffected
        /\ totals.errors = pool_base.errors + Cardinality(Ended("err"))

(* C4 as stated: once the pool of a Source has drained, totals.errors has
   grown by exactly the number of candidates that raised and
   totals.duplicates by exactly the number of candidates found to be
   duplicates, for every interleaving of the workers. *)
C4_AsStated ==
    (mpc = "pool" /\ \A i \in 1..Len(tasks) : tasks[i].pc = "done") =>
        /\ totals.errors - pool_base.errors = Cardinality(Ended("err"))
        /\ totals.duplicates - pool_base.duplicates = Cardinality(Ended("dup"))

(* the rows of the candidates of the current pool, in submission order *)
RowsInSubmissionOrder == Rows([i \in 1..Len(tasks) |-> tasks[i].res])

(* C6: whenever a row batch is handed to the sink, it lists the rows in the
   order in which their candidates were submitted to the pool, whatever the
   order in which the workers finished. *)
C6_RowOrder ==
    [][(mpc = "pool" /\ sink' # sink) => sink' = Append(sink, RowsInSubmissionOrder)]_vars

(* a batch of two different rows, JobA's first, though JobH finished first *)
C6_Witness ==
    /\ sink # <<>>
    /\ Len(sink[Len(sink)]) = 2
    /\ sink[Len(sink)][1] # sink[Len(sink)][2]
    /\ sink[Len(sink)][1] = to_sheet_row(extract_fields(JobA, TRUE, TRUE, TRUE).fields[1])
    /\ Len(joblog) >= 2
    /\ joblog[Len(joblog)].url = JobA
    /\ joblog[Len(joblog) - 1].url = JobH
    /\ joblog[Len(joblog)].out = "row"
    /\ joblog[Len(joblog) - 1].out = "row"

(* the chain that the code implements: Tier 2 runs exactly when Tier 1 gave
   no href; Tier 3 runs exactly when no candidate URL is left after Tiers 1
   and 2, and fetches a board page only then *)
ChainOnCandidates ==
    /\ sel.tier2 <=> sel.n1 = 0
    /\ sel.tier3 <=> sel.found12 = 0
    /\ sel.board => sel.tier3
    /\ sel.n3 > 0 => sel.board

(* C7 as stated: Tier 2 runs exactly when Tier 1 yields nothing, Tier 3 runs
   exactly when Tier 2 ran and also yielded nothing, and Tier 3 never runs for
   a Source on which Tier 2 did not run. *)
C7_AsStated ==
    sel.attempted =>
        /\ sel.tier2 <=> sel.n1 = 0
        /\ sel.tier3 <=> (sel.tier2 /\ sel.found12 = 0)
        /\ sel.board => sel.tier2

(* C7, amended: Tier 2 runs exactly when Tier 1 yields no href; Tier 3 runs
   exactly when the candidate list is empty after Tiers 1 and 2, which
   includes the Sources where Tier 1 selected only hrefs that are dropped
   (so that Tier 2 did not run); no later tier runs once an earlier one has
   produced a candidate URL. *)
C7_FallbackChain ==
    sel.attempted =>
        /\ ChainOnCandidates
        /\ (sel.tier3 /\ ~sel.tier2) => (sel.n1 > 0 /\ sel.found12 = 0)
        /\ sel.origin = "tier1" => (~sel.tier2 /\ ~sel.tier3 /\ ~sel.board)
        /\ sel.origin = "tier2" => (sel.tier2 /\ ~sel.tier3 /\ ~sel.board)
        /\ sel.origin = "tier3" => (sel.board /\ sel.found12 = 0)

(* Tier 1 picked only a mailto link: Tier 2 is skipped, Tier 3 fetches the
   board and finds the candidate *)
C7_Witness ==
    /\ sel.attempted
    /\ sel.n1 > 0
    /\ ~sel.tier2
    /\ sel.tier3
    /\ sel.board
    /\ sel.origin = "tier3"

(* C8 as stated: when the anchors hold a link to a known ATS-board host, no
   anchor has a job-path keyword or apply/view-role text, and Tier 1 returns
   no index, Tier 2 produces no candidate and every candidate of the Source
   comes from Tier 3. *)
C8_AsStated ==
    (sel.attempted /\ sel.has_board /\ ~sel.has_direct /\ sel.no_index) =>
        /\ sel.n2 = 0
        /\ sel.origin \in {"none", "tier3"}

(* C9: once the Source loop has started, whatever fails for a posting or a
   Source, the run eventually returns its payload (totals and errors), and by
   then the page fetch of every Source of the list has been attempted, in
   list order. *)
C9_NeverAborts ==
    (mpc = "fetch" /\ src = 1) ~> (mpc = "done" /\ fetched = careers_urls)

(* the payload is returned after the first Source failed at its page fetch
   and a posting of the second Source raised *)
C9_Witness ==
    /\ mpc = "done"
    /\ Len(careers_urls) = 2
    /\ fetched = careers_urls
    /\ \E k \in 1..Len(errors) : errors[k].scope = "careers" /\ errors[k].url = SrcA
    /\ \E k \in 1..Len(errors) : errors[k].scope = "job"

CareersEntries == Cardinality({k \in 1..Len(errors) : errors[k].scope = "careers"})

(* C10: careers_processed counts exactly the Sources that completed without
   a Source-level exception and the "careers" ErrorEntries exactly those that
   raised, each raising Source adding one to the errors counter: while the
   loop runs the two add up to the number of Sources already left behind,
   and when the run ends to the number of Sources in the list. *)
C10_SourceAccounting ==
    /\ mpc \in {"fetch", "tier1", "board", "pool"} =>
            totals.careers_processed + CareersEntries = src - 1
    /\ mpc = "done" =>
            totals.careers_processed + CareersEntries = Len(careers_urls)
    /\ totals.careers_processed <= Len(fetched)
    /\ (CareersEntries = Len(errors)
          /\ \A i \in 1..Len(tasks) : tasks[i].pc \notin {"err_a", "err_ret"}) =>
            totals.errors = CareersEntries

(* a run of two Sources ended: one raised, the other was processed *)
C10_Witness ==
    /\ mpc = "done"
    /\ Len(careers_urls) = 2
    /\ totals.careers_processed = 1
    /\ CareersEntries = 1
    /\ totals.errors = 1

(* C5 as stated: any two calls that leave the gate of one client do so at
   least rate_limit_delay apart on the clock the gate reads, also when they
   come from different workers at the same time. *)
C5_AsStated ==
    \A i, j \in 1..Len(passes) :
        i < j => passes[j].at - passes[i].at >= RateLimitDelay

(* the run returned its payload and no posting got through: every candidate
   that was handed to a worker raised, and at least one error was recorded *)
OnlyErrors ==
    /\ mpc = "done"
    /\ errors # <<>>
    /\ \A k \in 1..Len(joblog) : joblog[k].out = "err"

(* C11 as stated: an invocation in which no posting was successfully
   processed and whose outcome is driven entirely by errors, Source-level or
   job-level, is answered as a failed invocation: HTTP 500 with a top-level
   error field holding the message of the first ErrorEntry, together with the
   totals and the errors. *)
C11_AsStated ==
    OnlyErrors =>
        LET response == handler(execute(totals, errors))
        IN  /\ response.statusCode = 500
            /\ response.body.error = <<errors[1].message>>
            /\ response.body.totals = totals
            /\ response.body.errors = errors

NoTotals == [careers_processed |-> 0, job_urls_found |-> 0, rows_appended |-> 0,
             duplicates |-> 0, errors |-> 0]

(* C12: when persistence is requested (dry_run false) and no sink identifier
   is given, the run stops before any Source is processed: the main thread
   never enters the Source loop and never returns a payload, no page is
   fetched, no oracle is asked, no CacheRecord is written and nothing is
   appended to the sink. *)
C12_StopsBeforeSources ==
    (~dry_run /\ sheet_id = <<>>) =>
        /\ mpc \in {"init", "exit"}
        /\ fetched = <<>>
        /\ sel = NoSel
        /\ tasks = <<>>
        /\ joblog = <<>>
        /\ cache \in {EmptyCache, SeededCache}
        /\ sink = <<>>
        /\ totals = NoTotals
        /\ errors = <<>>

(* the run was stopped by the validation with a Source waiting *)
C12_Witness ==
    /\ mpc = "exit"
    /\ ~dry_run
    /\ sheet_id = <<>>
    /\ careers_urls # <<>>

(* C13 as stated: a concurrency of zero or less is rejected before any Source
   is processed: no page is fetched and no oracle is asked for any Source of
   the invocation. *)
C13_AsStated ==
    concurrency <= 0 => (fetched = <<>> /\ ~sel.attempted)

(* complete_json has returned or raised *)
Ended_json == lpc \in {"returned", "raised"}

(* the _post_chat calls made so far: one first request each *)
PostChatCalls == Cardinality({k \in 1..Len(requests) : ~requests[k].retry})

(* every attempt the budget allows was made and none gave a valid object *)
AllAttemptsFailed ==
    /\ Len(verdicts) = retries_budget + 1
    /\ \A k \in 1..Len(verdicts) : verdicts[k].verdict # "ok"

(* C14: complete_json with retry budget N >= 0 always terminates, after at
   most N+1 oracle attempts; it returns the first schema-valid object it
   obtains and makes no attempt after it; and when all N+1 attempts fail to
   parse or validate, it fails with the error that carries the parse or
   validation error of the last attempt. *)
C14_RetryBudget ==
    /\ [](/\ attempts <= retries_budget + 1
          /\ PostChatCalls <= retries_budget + 1
          /\ Len(verdicts) <= retries_budget + 1)
    /\ [](lpc = "returned" =>
            /\ verdicts # <<>>
            /\ verdicts[Len(verdicts)].verdict = "ok"
            /\ outcome = Ending("return", verdicts[Len(verdicts)].content, <<>>)
            /\ \A k \in 1..(Len(verdicts) - 1) : verdicts[k].verdict # "ok"
            /\ requests[Len(requests)].attempt = verdicts[Len(verdicts)].attempt)
    /\ []((AllAttemptsFailed /\ Ended_json) =>
            outcome = Ending("LLM failed to produce valid JSON after retries", "",
                             <<[attempt |-> retries_budget + 1,
                                error |-> verdicts[retries_budget + 1].verdict]>>))
    /\ [][~Ended_json]_llm_vars
    /\ <>Ended_json

(* a call with a budget of at least one retry used all of it: an attempt
   whose content did not parse, a last one whose object did not validate *)
C14_Witness ==
    /\ lpc = "raised"
    /\ retries_budget >= 1
    /\ AllAttemptsFailed
    /\ verdicts[1].verdict = "JSONDecodeError"
    /\ verdicts[Len(verdicts)].verdict = "ValidationError"

(* C15 as stated: when the retry that follows a rate-limit (429) response
   fails too, this costs one attempt of the budget and complete_json goes on
   with the attempts it has left: it ends in an error only when the budget
   is used up. *)
C15_AsStated ==
    (/\ lpc = "raised"
     /\ requests # <<>>
     /\ requests[Len(requests)].retry
     /\ requests[Len(requests)].status \notin {0, 200}) =>
        attempts = retries_budget + 1

(* fetch_page has returned or raised *)
PageEnded == fpc \in {"returned", "raised"}

LastStatus == page_requests[Len(page_requests)].status

LastBody == page_requests[Len(page_requests)].body[1]

(* C16: fetch_page issues at most two HTTP requests per call; the second is
   made only after a first response with status 429 or 5xx, and only once;
   any other non-2xx first response, a failing retry, a body that is not
   well-formed structured data or a success=false flag makes fetch_page fail
   with an error, and no request follows once it has failed or returned. *)
C16_AtMostTwoRequests ==
    /\ [](/\ Len(page_requests) <= 2
          /\ Len(page_requests) = 2 =>
                /\ page_requests[1].status = 429 \/ page_requests[1].status >= 500
                /\ ~page_requests[1].retry
                /\ page_requests[2].retry)
    /\ []((/\ Len(page_requests) = 1
           /\ ~IsSuccess(LastStatus)
           /\ LastStatus # 429
           /\ LastStatus < 500) => fpc = "raised")
    /\ []((Len(page_requests) = 2 /\ ~IsSuccess(LastStatus)) => fpc = "raised")
    /\ []((/\ page_requests # <<>>
           /\ IsSuccess(LastStatus)
           /\ \/ ~LastBody.is_json
              \/ ~LastBody.is_dict
              \/ LastBody.success = <<FALSE>>) => fpc = "raised")
    /\ [](fpc = "returned" =>
            /\ IsSuccess(LastStatus)
            /\ LastBody.is_json /\ LastBody.is_dict /\ LastBody.success # <<FALSE>>)
    /\ [][~PageEnded]_page_vars

(* a call that returned the page after one retry *)
C16_Witness ==
    /\ fpc = "returned"
    /\ Len(page_requests) = 2
    /\ page_requests[1].status = 503
    /\ page_outcome[1].page[1].links # <<>>

(* a worker takes candidate i from the queue in this step *)
Starts(i) ==
    /\ i \in DOMAIN tasks'
    /\ tasks[i].pc = "queued"
    /\ tasks'[i].pc # "queued"

(* the step left everything a skip must not touch as it was *)
NothingMoved ==
    /\ cache' = cache
    /\ totals' = totals
    /\ errors' = errors
    /\ sink' = sink

(* candidate i, whose resume lookup found its URL, returns in this step *)
SkipReturns(i) ==
    /\ i \in DOMAIN tasks'
    /\ tasks[i].pc = "skip_ret"
    /\ tasks'[i] # tasks[i]

(* C17: in resume mode a candidate whose URL already has a CacheRecord is
   skipped as soon as the lookup has answered: process_job makes no page
   fetch, no ATS fetch and no oracle call for it, writes nothing to the
   cache, returns no row and leaves duplicates and errors as they are (the
   lookup sends it straight to its return, and the return is its next and
   last step).  With resume mode off the URL lookup is not applied: no
   candidate is skipped, every candidate goes to extraction and, once its
   fields are there, to the fingerprint check. *)
C17_ResumeSkip ==
    [][\A i \in 1..Len(tasks) :
         /\ Starts(i) =>
               /\ (resume /\ tasks[i].url \in DOMAIN cache) =>
                     /\ tasks'[i].calls = <<>>
                     /\ NothingMoved
                     /\ joblog' = joblog
                     /\ tasks'[i].pc \in {"skip_ret", "err_r"}
                     /\ tasks'[i].pc = "skip_ret" => faults' = faults
               /\ ~resume =>
                     /\ tasks'[i].calls # <<>>
                     /\ tasks'[i].pc \in {"fpcheck", "err_r"}
                     /\ tasks'[i].pc = "fpcheck" <=> tasks'[i].fields # <<>>
         /\ SkipReturns(i) =>
               /\ tasks[i].calls = <<>>
               /\ tasks'[i].calls = <<>>
               /\ NothingMoved
               /\ faults' = faults
               /\ tasks'[i].pc = "done"
               /\ tasks'[i].out = "skip"
               /\ tasks'[i].res = <<>>
               /\ joblog' = Append(joblog, LogEntry(tasks[i], "skip", cache, 0, 0))
       ]_vars

(* resume mode skipped a candidate that the cache already held *)
C17_Witness ==
    /\ resume
    /\ \E k \in 1..Len(joblog) :
         /\ joblog[k].out = "skip"
         /\ joblog[k].calls = <<>>
         /\ joblog[k].url \in DOMAIN cache

(* the step ran the extraction tiers for candidate i and the deterministic
   parser, which matches its URL, did not deliver the fields *)
ParserRaised(i) ==
    /\ Starts(i)
    /\ can_handle(tasks[i].url)
    /\ tasks'[i].calls # <<>>
    /\ ~(tasks'[i].calls = <<"parse_job">> /\ tasks'[i].pc = "fpcheck")

(* C18: when the deterministic ATS parser matches a candidate URL but its
   parsing raises, the candidate is not failed by that: the generic tier
   (page fetch, then oracle extraction) is run for it, no error is counted at
   that point, and the candidate goes to the error path only when the generic
   tier itself raises. *)
C18_ParserFallback ==
    [][\A i \in 1..Len(tasks) :
         ParserRaised(i) =>
            /\ tasks'[i].tier = "generic"
            /\ Len(tasks'[i].calls) >= 2
            /\ tasks'[i].calls[1] = "parse_job"
            /\ tasks'[i].calls[2] = "fetch_page"
            /\ totals' = totals
            /\ errors' = errors
            /\ tasks'[i].pc = "fpcheck" <=>
                  tasks'[i].calls = <<"parse_job", "fetch_page", "complete_json">>
                  /\ tasks'[i].fields # <<>>
            /\ tasks'[i].pc = "err_r" <=>
                  tasks'[i].msg \in {"fetch failed",
                                     "LLM failed to produce valid JSON after retries"}
       ]_vars

(* a candidate whose parser raised gave a row through the generic tier, and
   nothing was counted as an error *)
C18_Witness ==
    /\ totals.errors = 0
    /\ errors = <<>>
    /\ \E k \in 1..Len(joblog) :
         /\ can_handle(joblog[k].url)
         /\ joblog[k].calls = <<"parse_job", "fetch_page", "complete_json">>
         /\ joblog[k].out = "row"

(* the number of candidates candidate selection ended with for the Source:
   what the board page gave when Tier 3 fetched it, else what Tiers 1 and 2
   gave *)
Discovered(record) == IF record.board THEN record.n3 ELSE record.found12

(* this step ends candidate selection and creates the Source's pool *)
PoolCreated == mpc \in {"tier1", "board"} /\ mpc' = "pool"

(* C19 as stated: job_urls_found grows, per Source, by the number of
   candidates discovered before the max-jobs truncation, and only then; the
   number of candidates handed to the worker pool is the smaller of that
   number and max_jobs (all of them when no maximum is given, none under a
   maximum below one). *)
C19_AsStated ==
    [][/\ (PoolCreated \/ totals'.job_urls_found # totals.job_urls_found) =>
             totals'.job_urls_found = totals.job_urls_found + Discovered(sel')
       /\ PoolCreated =>
             Len(tasks') = IF max_jobs = <<>> THEN Discovered(sel')
                           ELSE Max(Min(Discovered(sel'), max_jobs[1]), 0)
      ]_vars

(* the part of C19 the code keeps: the counter grows by the number of
   candidates discovered, before the truncation and only then, and under a
   maximum that is not negative the pool gets the smaller of the two numbers *)
C19_NonNegativeMaximum ==
    [][/\ (PoolCreated \/ totals'.job_urls_found # totals.job_urls_found) =>
             totals'.job_urls_found = totals.job_urls_found + Discovered(sel')
       /\ (PoolCreated /\ (max_jobs = <<>> \/ max_jobs[1] >= 0)) =>
             Len(tasks') = IF max_jobs = <<>> THEN Discovered(sel')
                           ELSE Min(Discovered(sel'), max_jobs[1])
       /\ (PoolCreated /\ max_jobs # <<>> /\ max_jobs[1] < 0) =>
             Len(tasks') = Max(Discovered(sel') + max_jobs[1], 0)
      ]_vars

(* the rows the candidates of the current pool returned, in submission order:
   duplicates, skipped and failed candidates return none *)
RowsProduced ==
    LET upto[n \in 0..Len(tasks)] ==
            IF n = 0 THEN <<>>
            ELSE IF tasks[n].out = "row" THEN Append(upto[n - 1], tasks[n].res[1])
            ELSE upto[n - 1]
    IN  upto[Len(tasks)]

RowsInSink ==
    LET sum[n \in 0..Len(sink)] == IF n = 0 THEN 0 ELSE sum[n - 1] + Len(sink[n])
    IN  sum[Len(sink)]

(* C20: for each Source the sink receives at most one append, holding all
   and only the rows its candidates produced (none for duplicates); the
   append is issued after every worker of the Source's pool has finished and
   before the next Source is fetched, and rows_appended grows by exactly the
   number of rows appended, and never otherwise. *)
C20_OneAppendPerSource ==
    /\ [][/\ sink' # sink =>
                /\ mpc = "pool"
                /\ \A i \in 1..Len(tasks) : tasks[i].pc = "done"
                /\ RowsProduced # <<>>
                /\ sink' = Append(sink, RowsProduced)
                /\ totals'.rows_appended = totals.rows_appended + Len(RowsProduced)
                /\ Len(fetched) = src
                /\ fetched' = fetched
                /\ src' = src + 1
          /\ totals'.rows_appended # totals.rows_appended => sink' # sink
         ]_vars
    /\ [](/\ Len(sink) <= Max(src - 1, 0)
          /\ totals.rows_appended = RowsInSink)

(* two Sources in a row each had their batch appended *)
C20_Witness ==
    /\ mpc = "done"
    /\ Len(sink) = 2
    /\ totals.rows_appended = Len(sink[1]) + Len(sink[2])
    /\ totals.duplicates > 0

(* the function under observation is f and it has returned *)
Returned(f) == fn = f /\ ret # <<>>

(* input k of the call is one the function keeps: non-empty, not starting
   with '#', resolving against the base to an http or https URL *)
KeptInput(k) ==
    /\ arg.urls[k] # <<>>
    /\ Head(arg.urls[k]) # "#top"
    /\ Head(urljoin(arg.base_url, arg.urls[k])) \in {"http:", "https:"}

(* the first input that resolves to the absolute URL a *)
FirstOccurrence(a) ==
    CHOOSE k \in 1..Len(arg.urls) :
        /\ KeptInput(k) /\ urljoin(arg.base_url, arg.urls[k]) = a
        /\ \A j \in 1..(k - 1) :
              ~(KeptInput(j) /\ urljoin(arg.base_url, arg.urls[j]) = a)

(* C21: absolutize_and_dedupe_urls(urls, base) returns, in first-occurrence
   order and without duplicates, exactly the absolutized forms of the inputs
   that are non-empty, do not start with '#' and resolve against base to an
   http or https URL; mailto:, tel:, javascript: and fragment-only entries
   never appear in the output. *)
C21_AbsolutizeDedupe ==
    Returned("absolutize_and_dedupe_urls") =>
        LET out == ret[1]
        IN  /\ Range(out) = {urljoin(arg.base_url, arg.urls[k]) :
                                k \in {j \in 1..Len(arg.urls) : KeptInput(j)}}
            /\ \A i, j \in 1..Len(out) : i # j => out[i] # out[j]
            /\ \A i, j \in 1..Len(out) :
                  i < j => FirstOccurrence(out[i]) < FirstOccurrence(out[j])
            /\ \A i \in 1..Len(out) :
                  /\ out[i] # <<>>
                  /\ out[i][1] \notin {"mailto:", "tel:", "javascript:"}
                  /\ out[i] \notin {MailTo, <<"#top">>}

(* a relative and an absolute form of one URL collapsed into one output, a
   mailto: entry was dropped *)
C21_Witness ==
    /\ Returned("absolutize_and_dedupe_urls")
    /\ arg.urls = << <<"/jobs/", "1">>, MailTo, JobA >>
    /\ ret[1] = <<JobA>>

(* an absolute http(s) URL: scheme, then host *)
IsAbsoluteHttp(u) ==
    /\ Len(u) >= 2
    /\ u[1] \in {"http:", "https:"}
    /\ u[2] \in HostTokens

(* C22 as stated: every candidate handed to the worker pool, from whichever
   tier it came, is a non-empty absolute http(s) URL; no URL occurs twice in
   a Source's candidate list; and when the caller gives a maximum, the list
   handed to the pool is never longer than that maximum (an empty list is
   within any maximum). *)
C22_AsStated ==
    /\ \A i \in 1..Len(tasks) : tasks[i].url # <<>> /\ IsAbsoluteHttp(tasks[i].url)
    /\ \A i, j \in 1..Len(tasks) : i # j => tasks[i].url # tasks[j].url
    /\ max_jobs # <<>> => Len(tasks) <= Max(max_jobs[1], 0)

(* the part of C22 the code keeps: the candidates of a pool are absolute
   http(s) URLs, pairwise different, and no more than a maximum that is not
   negative *)
C22_NonNegativeMaximum ==
    /\ \A i \in 1..Len(tasks) : tasks[i].url # <<>> /\ IsAbsoluteHttp(tasks[i].url)
    /\ \A i, j \in 1..Len(tasks) : i # j => tasks[i].url # tasks[j].url
    /\ (max_jobs # <<>> /\ max_jobs[1] >= 0) => Len(tasks) <= max_jobs[1]

(* the number of components in which two triples differ *)
DifferingComponents(a, b) ==
    Cardinality({ k \in {"canonical_url", "title", "company"} : a[k] # b[k] })

(* C23: fingerprint(canonical_url, title, company) is a pure function: equal
   triples always give equal fingerprints, and two triples that differ in
   exactly one of the three components give different fingerprints. *)
C23_FingerprintDeterminism ==
    Returned("fingerprint") =>
        /\ arg.first = arg.second => ret[1][1] = ret[1][2]
        /\ DifferingComponents(arg.first, arg.second) = 1 => ret[1][1] # ret[1][2]

(* two postings of one URL and title whose companies differ by the separator *)
C23_Witness ==
    /\ Returned("fingerprint")
    /\ arg.first.canonical_url = arg.second.canonical_url
    /\ arg.first.title = arg.second.title
    /\ arg.first.company = <<"Acme">>
    /\ arg.second.company = <<"||">>
    /\ ret[1][1] # ret[1][2]

(* C24: at no time are more than `concurrency` per-candidate pipelines of a
   Source executing at once, and in the hosted entry point
   (run_local.execute) the concurrency handed to the pipeline never exceeds 4
   whatever value the caller or the configuration supplies. *)
C24_BoundedParallelism ==
    /\ Running # {} => Cardinality(Running) <= concurrency
    /\ fn = "execute" => concurrency <= 4

(* two candidates of a Source in extraction at once, under a payload asking
   for 8 workers *)
C24_Witness ==
    /\ fn = "execute"
    /\ arg.concurrency = <<8>>
    /\ concurrency = 4
    /\ Cardinality(Running) = 2

(* a pool of one worker with one candidate in extraction and one waiting *)
C24_PoolFull ==
    /\ fn = "execute"
    /\ concurrency = 1
    /\ Cardinality(Running) = 1
    /\ \E i \in 1..Len(tasks) : tasks[i].pc = "queued"

(* employment-type chunks by what a reader sees in them *)
SaysFullTime == {"Full-Time", "full time", "Permanent"}

SaysPartTime == {"PART-TIME", "Part Time"}

SaysIntern == {"Software Engineering Internship", "intern", "Co-op", "International"}

Says(value, chunks) == \E i \in 1..Len(value) : value[i] \in chunks

ExpectedJobType(value) ==
    IF Says(value, SaysFullTime) THEN <<"Full Time">>
    ELSE IF Says(value, SaysPartTime) THEN <<"Part Time">>
    ELSE IF Says(value, SaysIntern) THEN <<"Internship">>
    ELSE <<>>

(* C25: employment-type normalization is a case-insensitive substring match
   applied in this precedence: full-time / full time / permanent gives
   "Full Time", else part-time / part time gives "Part Time", else intern /
   co-op gives "Internship"; when nothing matches (e.g. "contract")
   normalize_job_type reports no mapping and postprocess_fields leaves the
   original job_type value unchanged. *)
C25_JobTypePrecedence ==
    /\ Returned("normalize_job_type") => ret[1] = ExpectedJobType(arg.value)
    /\ Returned("postprocess_fields") =>
          ret[1].job_type = IF ExpectedJobType(arg.fields.job_type) = <<>>
                            THEN arg.fields.job_type
                            ELSE ExpectedJobType(arg.fields.job_type)

(* an internship that is also full-time is normalized to "Full Time" *)
C25_Witness ==
    /\ Returned("normalize_job_type")
    /\ arg.value = <<"Software Engineering Internship", "Full-Time">>
    /\ ret[1] = <<"Full Time">>

(* "contract" is left as it was by postprocess_fields *)
C25_ContractKept ==
    /\ Returned("postprocess_fields")
    /\ arg.fields.job_type = <<"contract">>
    /\ ret[1].job_type = <<"contract">>

(* markup chunks in which one of the four phrases stands as a whole word *)
MentionsRemote == {"Remote", "remote", "non-remote", "Work From Anywhere", "WFH",
                   "Hybrid", "hybrid-friendly"}

(* C26: after postprocess_fields the remote flag is always a definite boolean:
   an explicit true or false from either extraction tier is kept unchanged,
   and an unset flag becomes true exactly when the page markup contains
   remote, work from anywhere, wfh or hybrid as a whole word
   (case-insensitive), and false otherwise. *)
C26_RemoteFlagDefinite ==
    Returned("postprocess_fields") =>
        /\ ret[1].remote_ok \in {<<TRUE>>, <<FALSE>>}
        /\ arg.fields.remote_ok # <<>> => ret[1].remote_ok = arg.fields.remote_ok
        /\ arg.fields.remote_ok = <<>> =>
              ret[1].remote_ok = << Says(arg.page_html, MentionsRemote) >>

(* an unset flag set from markup saying "WFH" after "remotely" *)
C26_Witness ==
    /\ Returned("postprocess_fields")
    /\ arg.fields.remote_ok = <<>>
    /\ arg.page_html = <<"remotely", "WFH">>
    /\ ret[1].remote_ok = <<TRUE>>

(* an explicit false kept although the markup says "Remote" *)
C26_ExplicitKept ==
    /\ Returned("postprocess_fields")
    /\ arg.fields.remote_ok = <<FALSE>>
    /\ arg.page_html = <<"Remote">>
    /\ ret[1].remote_ok = <<FALSE>>

(* C27: after every failed attempt of complete_json, whether the failure is a
   JSON parse error or a schema-validation error, the next attempt is sent
   with the tightened instruction (the explicit JSON-only directive appended)
   and is preceded by a backoff that grows with the attempt number.
   As stated: every first request of an attempt after the first carries the
   directive, and a backoff of the attempt before it was slept. *)
C27_AsStated ==
    \A k \in 1..Len(requests) :
        (~requests[k].retry /\ requests[k].attempt > 1) =>
            /\ requests[k].directives >= 1
            /\ \E s \in 1..Len(sleeps) :
                  /\ sleeps[s].why = "backoff"
                  /\ sleeps[s].attempts = requests[k].attempt - 1

(* the part of C27 the code keeps: an attempt that follows a schema
   validation error carries one directive more and follows a backoff of
   0.75 s times the number of the failed attempt *)
C27_AfterValidationError ==
    \A k \in 1..Len(requests) :
        (/\ ~requests[k].retry
         /\ requests[k].attempt > 1
         /\ verdicts[requests[k].attempt - 1].verdict = "ValidationError") =>
            /\ requests[k].directives >= 1
            /\ \E s \in 1..Len(sleeps) :
                  /\ sleeps[s].why = "backoff"
                  /\ sleeps[s].attempts = requests[k].attempt - 1

(* process_job k of the log wrote its record, and the cache holds it under
   its URL with its fingerprint unless a later Source stored that URL again
   (INSERT OR REPLACE) *)
RecordWritten(k) ==
    /\ joblog[k].wrote = 1
    /\ joblog[k].url \in DOMAIN cache
    /\ \/ cache[joblog[k].url].fingerprint = joblog[k].fp
       \/ \E later \in (k + 1)..Len(joblog) :
              /\ joblog[later].url = joblog[k].url
              /\ joblog[later].out = "row"
       \/ \E i \in 1..Len(tasks) :
              /\ tasks[i].url = joblog[k].url
              /\ tasks[i].pc = "ret"

(* C28: whenever process_job returns a row, a CacheRecord holding that
   candidate's URL and fingerprint has already been written; and when the
   fingerprint is already present in the cache, no CacheRecord is written or
   changed, no row is returned and duplicates is incremented.
   As stated: every candidate found to be a duplicate moves
   totals.duplicates by one. *)
C28_AsStated ==
    \A k \in 1..Len(joblog) :
        /\ joblog[k].out = "row" => RecordWritten(k)
        /\ joblog[k].out = "dup" =>
              /\ joblog[k].wrote = 0
              /\ joblog[k].held >= 1
              /\ joblog[k].dup_inc = 1

(* the part of C28 the code keeps: the record is written before the row is
   returned, and a duplicate writes no record and returns no row *)
C28_RecordBeforeRow ==
    /\ \A k \in 1..Len(joblog) :
          /\ joblog[k].out = "row" => RecordWritten(k)
          /\ joblog[k].out = "dup" => joblog[k].wrote = 0 /\ joblog[k].held >= 1
    /\ \A i \in 1..Len(tasks) :
          (tasks[i].pc = "done" /\ tasks[i].res # <<>>) =>
              \E k \in 1..Len(joblog) :
                  /\ joblog[k].url = tasks[i].url
                  /\ joblog[k].out = "row"
                  /\ RecordWritten(k)

(* a row tells its tier: the parser reports the employment status "contract"
   of the posting, the oracle's "full-time" is normalized to "Full Time" *)
FromParser(row) == row[5] = <<"contract">>

FromOracle(row) == row[5] = <<"Full Time">>

(* C29: for every candidate that yields a row, its JobFields come from
   exactly one extraction tier: when the deterministic parser matches the URL
   and succeeds, neither the Page Fetcher nor the extraction oracle is called
   for that candidate; the generic tier is called only when no parser matched
   or the parser failed. *)
C29_ExactlyOneTier ==
    \A i \in 1..Len(tasks) :
        LET t == tasks[i]
            generic_called == {"fetch_page", "complete_json"} \cap Range(t.calls) # {}
        IN  /\ (t.pc = "done" /\ t.res # <<>>) =>
                  /\ FromParser(t.res[1]) # FromOracle(t.res[1])
                  /\ FromParser(t.res[1]) =>
                        can_handle(t.url) /\ t.calls = <<"parse_job">>
                  /\ FromOracle(t.res[1]) =>
                        t.calls = (IF can_handle(t.url) THEN <<"parse_job">> ELSE <<>>)
                                  \o <<"fetch_page", "complete_json">>
            /\ (t.tier = "ats" /\ t.calls # <<>>) => ~generic_called
            /\ generic_called =>
                  /\ t.tier = "generic"
                  /\ can_handle(t.url) <=> Head(t.calls) = "parse_job"
            /\ ~can_handle(t.url) => "parse_job" \notin Range(t.calls)

(* the BambooHR posting gave a row from the parser with no other call *)
C29_Witness ==
    \E i \in 1..Len(tasks) :
        /\ tasks[i].pc = "done"
        /\ tasks[i].res # <<>>
        /\ FromParser(tasks[i].res[1])
        /\ tasks[i].calls = <<"parse_job">>

(* a posting no parser handles gave a row from the oracle *)
C29_GenericRow ==
    \E i \in 1..Len(tasks) :
        /\ tasks[i].pc = "done"
        /\ tasks[i].res # <<>>
        /\ ~can_handle(tasks[i].url)
        /\ FromOracle(tasks[i].res[1])

(* how many times process_job has returned for URL u in the pool of Source s *)
Runs(s, u) ==
    Cardinality({k \in 1..Len(joblog) : joblog[k].src = s /\ joblog[k].url = u})

(* C30: each candidate of a Source's submitted list is processed by
   process_job exactly once per run: the pool never skips a candidate, never
   runs one twice, and never re-runs a candidate after it failed. *)
C30_ExactlyOnce ==
    /\ \A i \in 1..Len(tasks) :
          /\ Runs(src, tasks[i].url) = IF tasks[i].pc = "done" THEN 1 ELSE 0
          /\ tasks[i].pc = "queued" => tasks[i].calls = <<>>
    /\ \A k \in 1..Len(joblog) : Runs(joblog[k].src, joblog[k].url) = 1
    /\ Len(results) <= Len(tasks)
    /\ \A i \in 1..Len(results) : tasks[i].pc = "done" /\ results[i] = tasks[i].res

(* a drained pool of two candidates: one failed, one gave a row, each ran
   once *)
C30_Witness ==
    /\ mpc = "pool"
    /\ Len(tasks) = 2
    /\ Len(results) = 2
    /\ \E i, j \in 1..2 :
          /\ tasks[i].out = "err"
          /\ tasks[j].out = "row"
          /\ Runs(src, tasks[i].url) = 1
          /\ Runs(src, tasks[j].url) = 1

(* the successful fetches of an endpoint for a key *)
SuccessfulFetches(endpoint, key) ==
    Cardinality({k \in 1..Len(ats_fetches) :
                    /\ ats_fetches[k].endpoint = endpoint
                    /\ ats_fetches[k].key = key
                    /\ ats_fetches[k].ok})

(* C31: within one process the ATS detail endpoint is fetched successfully
   at most once per (board base URL, job id) and the company-info endpoint at
   most once per board base URL, also when several workers parse jobs of the
   same board concurrently (within the memo's capacity). *)
C31_AsStated ==
    \A k \in 1..Len(ats_fetches) :
        SuccessfulFetches(ats_fetches[k].endpoint, ats_fetches[k].key) <= 1

(* the part of C31 the code keeps: a thread that finds the key stored makes
   no fetch, so a key is fetched successfully twice only by two calls whose
   lookups both came before either result was stored *)
C31_NoFetchAfterStore ==
    \A w \in ParseThreads :
        /\ (apc[w] \in {"detail_fetch", "detail_store"}
              /\ DetailKey(aurl[w]) \in DOMAIN job_detail_memo) =>
              \E v \in ParseThreads \ {w} : \E k \in 1..Len(ats_fetches) :
                  /\ ats_fetches[k].thread = v
                  /\ ats_fetches[k].endpoint = "detail"
                  /\ ats_fetches[k].key = DetailKey(aurl[w])
                  /\ ats_fetches[k].ok
        /\ (apc[w] \in {"info_fetch", "info_store"}
              /\ InfoKey(aurl[w]) \in company_info_memo) =>
              \E v \in ParseThreads \ {w} : \E k \in 1..Len(ats_fetches) :
                  /\ ats_fetches[k].thread = v
                  /\ ats_fetches[k].endpoint = "company-info"
                  /\ ats_fetches[k].ok

(* the hrefs of the first 150 anchors of the page, resolved against the
   Source URL *)
ConsideredUrls ==
    { urljoin(arg.careers_url, arg.anchors[i].href) : i \in 1..Min(Len(arg.anchors), 150) }

(* the indices of the answer that name one of the considered anchors *)
ValidIndices ==
    SelectSeq(arg.selected_indices,
              LAMBDA idx : 0 <= idx /\ idx < Min(Len(arg.anchors), 150))

(* C32: only the first 150 anchors of the Source page are ever considered:
   every candidate produced by Tier 1 or Tier 2 and every board link used by
   Tier 3 is the href of one of those anchors; a Tier 1 index outside
   [0, number of truncated anchors) is discarded without raising, and a
   selection of more than 30 valid indices is accepted unmodified. *)
C32_First150Only ==
    Returned("select_candidates") =>
        /\ Len(ret[1].limited_anchors) <= 150
        /\ \A k \in 1..Len(ret[1].job_urls) : ret[1].job_urls[k] \in ConsideredUrls
        /\ \A k \in 1..Len(ret[1].board_links) : ret[1].board_links[k] \in ConsideredUrls
        /\ ret[1].tier1 = [j \in 1..Len(ValidIndices) |-> arg.anchors[ValidIndices[j] + 1].href]
        /\ ValidIndices # <<>> => ret[1].raw_urls = ret[1].tier1

(* 31 valid indices and one out of range on a page of 152 postings: the 31
   are all taken, the 32nd dropped *)
C32_Witness ==
    /\ Returned("select_candidates")
    /\ Len(arg.anchors) = 152
    /\ Len(arg.selected_indices) = 32
    /\ Len(ret[1].tier1) = 31
    /\ Len(ret[1].job_urls) = 31

(* the board link at place 151 is not used by Tier 3 *)
C32_BeyondLimit ==
    /\ Returned("select_candidates")
    /\ Len(arg.anchors) = 151
    /\ arg.anchors[151].href = Board
    /\ arg.selected_indices = <<150>>
    /\ ret[1].job_urls = <<>>
    /\ ret[1].board_links = <<>>

(* the end of the balanced span that opens at character i of s: brackets of
   the opening kind are counted, those inside double-quoted strings of the
   span (with backslash escapes) are not; 0 when the span never closes *)
RECURSIVE ClosesAt(_, _, _, _, _, _)
ClosesAt(s, i, closer, depth, quoted, escaped) ==
    IF i > Len(s) THEN 0
    ELSE IF quoted
    THEN ClosesAt(s, i + 1, closer, depth,
                  escaped \/ s[i] # "\"", ~escaped /\ s[i] = "\\")
    ELSE IF s[i] = "\"" THEN ClosesAt(s, i + 1, closer, depth, TRUE, FALSE)
    ELSE IF s[i] = closer
         THEN IF depth = 1 THEN i ELSE ClosesAt(s, i + 1, closer, depth - 1, FALSE, FALSE)
    ELSE IF (closer = "}" /\ s[i] = "{") \/ (closer = "]" /\ s[i] = "[")
         THEN ClosesAt(s, i + 1, closer, depth + 1, FALSE, FALSE)
    ELSE ClosesAt(s, i + 1, closer, depth, FALSE, FALSE)

SpanEnd(s, i) ==
    IF s[i] = "{" THEN ClosesAt(s, i + 1, "}", 1, FALSE, FALSE)
    ELSE IF s[i] = "[" THEN ClosesAt(s, i + 1, "]", 1, FALSE, FALSE)
    ELSE 0

HasBalancedSpan(s) == \E i \in 1..Len(s) : SpanEnd(s, i) # 0

FirstBalancedSpan(s) ==
    LET i == CHOOSE k \in 1..Len(s) :
                 SpanEnd(s, k) # 0 /\ \A j \in 1..(k - 1) : SpanEnd(s, j) = 0
    IN  SubSeq(s, i, SpanEnd(s, i))

(* C33: JSON substring extraction: after stripping one outer fence when the
   whole response is fenced, if the text contains a balanced {...} or [...]
   span (brackets inside double-quoted strings, with backslash escapes, not
   counting), the result is the first such balanced span; if there is no
   balanced span the result is the content of a fenced block labelled json
   when one exists, else the trimmed text. *)
C33_AsStated ==
    Returned("_extract_json_text") =>
        LET s == StripOuterFence(arg.text)
        IN  ret[1] = IF HasBalancedSpan(s) THEN FirstBalancedSpan(s)
                     ELSE IF FencedJson(s) # <<>> THEN FencedJson(s)[1]
                     ELSE s

(* the part of C33 the code keeps: when the first opening bracket of the
   text opens a balanced span, that span is the result; when the text has no
   balanced span at all, the result is the fenced json block or the trimmed
   text *)
C33_FirstBracketBalanced ==
    Returned("_extract_json_text") =>
        LET s == StripOuterFence(arg.text)
            first == IF \E i \in 1..Len(s) : s[i] \in {"{", "["}
                     THEN CHOOSE i \in 1..Len(s) :
                             s[i] \in {"{", "["} /\ \A j \in 1..(i - 1) : s[j] \notin {"{", "["}
                     ELSE 0
        IN  /\ (first # 0 /\ SpanEnd(s, first) # 0) =>
                  ret[1] = SubSeq(s, first, SpanEnd(s, first))
            /\ ~HasBalancedSpan(s) =>
                  ret[1] = IF FencedJson(s) # <<>> THEN FencedJson(s)[1] ELSE s

(* the text of a value when it is a string with something else than
   whitespace in it, <<>> otherwise *)
TextOf(v) == IF v[1] = "str" THEN StripWs(v[2]) ELSE <<>>

(* the posting's value when it has one, else the first the ATS location has *)
Preferred(own, fallbacks) ==
    IF TextOf(own) # <<>> THEN TextOf(own)
    ELSE IF \E i \in 1..Len(fallbacks) : TextOf(fallbacks[i]) # <<>>
    THEN TextOf(fallbacks[CHOOSE i \in 1..Len(fallbacks) :
                    /\ TextOf(fallbacks[i]) # <<>>
                    /\ \A j \in 1..(i - 1) : TextOf(fallbacks[j]) = <<>>])
    ELSE <<>>

PostingLocation == LocationOf(arg.location, LocationKeys)
PostingAtsLocation == LocationOf(arg.atsLocation, AtsLocationKeys)
City == Preferred(PostingLocation.city, <<PostingAtsLocation.city>>)
State == Preferred(PostingLocation.state,
                   <<PostingAtsLocation.state, PostingAtsLocation.province>>)
Country == Preferred(PostingLocation.addressCountry,
                     <<PostingAtsLocation.country, PostingAtsLocation.countryId>>)

(* C34: the location of a BambooHR posting is its city and state (each from
   the posting's location, falling back to its ATS location) joined with
   ", "; the country is appended only when present and not already one of
   the parts; when city and state are both absent the result is the country
   alone, and it is empty when all three are absent. *)
C34_ComposeLocation ==
    Returned("_compose_location") =>
        ret[1] =
            IF City = <<>> /\ State = <<>> THEN Country
            ELSE LET joined == IF City = <<>> THEN State
                               ELSE IF State = <<>> THEN City
                               ELSE City \o <<", ">> \o State
                 IN  IF Country # <<>> /\ Country # City /\ Country # State
                     THEN joined \o <<", ">> \o Country
                     ELSE joined

(* the country is one of the parts already and is not repeated *)
C34_Witness ==
    /\ Returned("_compose_location")
    /\ City = <<"Fairview">> /\ State = <<"Singapore">> /\ Country = <<"Singapore">>
    /\ PostingLocation.state = JStr(<<" ", "Singapore">>)
    /\ ret[1] = <<"Fairview", ", ", "Singapore">>

(* the ATS location fills in for a posting location with no usable value *)
C34_AtsFallback ==
    /\ Returned("_compose_location")
    /\ arg.location # <<>> /\ PostingLocation.city = JNum(<<"7">>)
    /\ PostingLocation.state = JStr(<<" ">>)
    /\ ret[1] = <<"Remote", ", ", "Singapore", ", ", "Fairview">>

(* C35: accounting conservation: for every Source whose processing
   completes, the number of candidates handed to the pool equals the rows in
   its batch plus the growth of duplicates plus the growth of errors caused
   by its candidates plus the candidates skipped by resume; every candidate
   ends in exactly one of these four outcomes. *)
C35_AsStated ==
    Drained =>
        /\ \A i \in 1..Len(tasks) : tasks[i].out \in {"row", "dup", "err", "skip"}
        /\ Len(tasks) = Len(Rows(results))
                        + (totals.duplicates - pool_base.duplicates)
                        + (totals.errors - pool_base.errors)
                        + Cardinality(Ended("skip"))

(* the part of C35 the code keeps: every candidate handed to the pool ends
   as a row of the batch, a duplicate, an error with its ErrorEntry or a
   resume skip, and with one worker the counters agree with the outcomes *)
C35_OneOutcomeEach ==
    Drained =>
        /\ \A i \in 1..Len(tasks) : tasks[i].out \in {"row", "dup", "err", "skip"}
        /\ Len(Rows(results)) = Cardinality(Ended("row"))
        /\ Len(BatchEntries) = Cardinality(Ended("err"))
        /\ Len(tasks) = Cardinality(Ended("row")) + Cardinality(Ended("dup"))
                        + Cardinality(Ended("err")) + Cardinality(Ended("skip"))
        /\ concurrency = 1 =>
              /\ totals.duplicates - pool_base.duplicates = Cardinality(Ended("dup"))
              /\ totals.errors - pool_base.errors = Cardinality(Ended("err"))

(* candidate i of the pool moves in this step *)
Moves(i) == i \in 1..Len(tasks) /\ Len(tasks') = Len(tasks) /\ tasks'[i] # tasks[i]

(* candidate i is in its except block, or has left it *)
InError(t) == t.pc \in {"err_r", "err_w", "err_a", "err_ret"} \/ (t.pc = "done" /\ t.out = "err")

(* C36: a candidate whose processing ends in an error leaves the cache
   unchanged: no CacheRecord is written or replaced for a candidate that is
   counted in errors, so that a later run meets it again as not seen.  Every
   step by which a candidate enters or runs its error path leaves the cache
   as it is, and the cache changes only in the step by which a candidate
   writes its own record, after which it can only return its row. *)
C36_ErrorLeavesCache ==
    [][ /\ \A i \in 1..Len(tasks) :
              (Moves(i) /\ InError(tasks'[i])) => cache' = cache
        /\ cache' # cache =>
              \E i \in 1..Len(tasks) :
                  /\ Moves(i)
                  /\ tasks[i].pc = "mark"
                  /\ tasks'[i].pc = "ret"
                  /\ \A u \in DOMAIN cache : u # tasks[i].url =>
                         u \in DOMAIN cache' /\ cache'[u] = cache[u]
        /\ \A i \in 1..Len(tasks) :
              (Moves(i) /\ tasks[i].pc = "ret") =>
                  tasks'[i].pc = "done" /\ tasks'[i].out = "row" ]_vars

(* a candidate failed at the cache write itself, after its fingerprint was
   found absent, and the cache has no record under its URL *)
C36_Witness ==
    \E i \in 1..Len(tasks) :
        /\ tasks[i].pc = "done" /\ tasks[i].out = "err"
        /\ tasks[i].tier # ""
        /\ \E k \in 1..Len(errors) :
              /\ errors[k].scope = "job" /\ errors[k].url = tasks[i].url
              /\ errors[k].message = "database is locked"
        /\ totals.errors >= 1
        /\ ~is_job_seen(cache, tasks[i].url)

(* the fingerprints is_fingerprint_seen answers true for *)
SeenFingerprints(c) == {c[u].fingerprint : u \in DOMAIN c}

(* C37: the fingerprint index is monotone: once is_fingerprint_seen(fp) has
   returned true it returns true in every later state of the same cache,
   after any sequence of mark_job_seen calls (including calls that re-record
   an already recorded URL with a different title, company or
   fingerprint). *)
C37_AsStated ==
    [][ \A fp \in SeenFingerprints(cache) : is_fingerprint_seen(cache', fp) ]_vars

(* the part of C37 the code keeps: a recorded URL stays recorded, and a
   fingerprint leaves the index only when the one record that carried it is
   stored again under its URL with another fingerprint *)
C37_UrlsMonotone ==
    [][ /\ \A u \in DOMAIN cache : is_job_seen(cache', u)
        /\ \A fp \in SeenFingerprints(cache) :
              ~is_fingerprint_seen(cache', fp) =>
                  \E u \in DOMAIN cache :
                      /\ cache[u].fingerprint = fp
                      /\ cache'[u].fingerprint # fp
                      /\ \A v \in DOMAIN cache : v # u => cache[v].fingerprint # fp ]_vars

(* the CacheRecords the run's process_job calls wrote *)
AllRecordsWritten == {k \in 1..Len(joblog) : joblog[k].wrote = 1}

AppendFailed == \E k \in 1..Len(errors) :
                    errors[k].scope = "careers" /\ errors[k].message = "append failed"

(* C38: no posting is recorded in the cache without its row reaching the
   sink: at the end of every run, each CacheRecord written during the run
   belongs to a row that was appended to the sink (or to the dry-run file)
   in its Source's batch, also when the sink append of a Source fails.  The
   sink then holds as many rows as records were written. *)
C38_AsStated ==
    mpc = "done" => Cardinality(AllRecordsWritten) = RowsInSink

(* the part of C38 the code keeps: in a run in which no append failed, the
   sink holds one row for every record written *)
C38_UnlessAppendFails ==
    (mpc = "done" /\ ~AppendFailed) => Cardinality(AllRecordsWritten) = RowsInSink

(* the Tier 1 oracle call of the current Source fails in this step: it is
   the only call made between the page fetch and the selection *)
OracleFails == mpc = "tier1" /\ faults' # faults

OracleEntries == {k \in 1..Len(errors) :
                     /\ errors[k].scope = "careers"
                     /\ errors[k].message = "LLM failed to produce valid JSON after retries"}

(* C39: if the Tier 1 oracle call fails, the Source is abandoned: neither
   Tier 2 nor Tier 3 runs, no candidate of that Source is processed,
   careers_processed is not incremented for it, and exactly one ErrorEntry
   with scope "careers" is recorded for it. *)
C39_OracleFailureAbandons ==
    [][ OracleFails =>
          /\ ~sel.attempted /\ sel' = sel
          /\ mpc' \in {"fetch", "done"} /\ src' = src + 1
          /\ tasks' = <<>> /\ joblog' = joblog /\ fetched' = fetched
          /\ cache' = cache /\ sink' = sink
          /\ totals' = [totals EXCEPT !.errors = @ + 1]
          /\ errors' = Append(errors, [scope |-> "careers", url |-> careers_urls[src],
                              message |-> "LLM failed to produce valid JSON after retries"]) ]_vars

(* a run of one Source ended with the oracle's failure: nothing was
   processed and the Source is not counted *)
C39_Witness ==
    /\ mpc = "done"
    /\ Len(careers_urls) = 1
    /\ OracleEntries = {1} /\ Len(errors) = 1
    /\ totals = [NoTotals EXCEPT !.errors = 1]
    /\ joblog = <<>> /\ sink = <<>>
    /\ fetched = careers_urls

(* the board page fetch of the current Source fails in this step *)
BoardFetchFails == mpc = "board" /\ faults' # faults

(* C40 as stated: Tier 3 makes at most one additional page fetch per Source
   (the first board link only), and a failure of that fetch is absorbed: it
   produces no ErrorEntry and no errors increment, the Source continues with
   zero candidates, and careers_processed is still incremented for it.  The
   board fetch is entered once, from the selection of the Source, for the
   first board link of its page, and is left in one step; when it fails, a
   pool of no candidates is created, and a Source with no candidates is
   counted as processed. *)
C40_AsStated ==
    [][ /\ (mpc' = "board" /\ mpc # "board") =>
              /\ mpc = "tier1" /\ src' = src
              /\ fallback_board' = board_links(limited_anchors, careers_urls[src])[1]
        /\ mpc = "board" => (mpc' \notin {"board", "tier1"} /\ fetched' = fetched)
        /\ BoardFetchFails =>
              /\ errors' = errors /\ totals' = totals
              /\ mpc' = "pool" /\ tasks' = <<>> /\ src' = src
        /\ (mpc = "pool" /\ tasks = <<>> /\ mpc' # "pool") =>
              /\ errors' = errors
              /\ totals' = [totals EXCEPT !.careers_processed = @ + 1]
              /\ src' = src + 1 ]_vars

(* the part of C40 the code keeps: one board fetch per Source, for the first
   board link, and when the pool can be created (concurrency of one or more)
   its failure is absorbed; otherwise the Source fails at the creation of
   its pool, with the ErrorEntry of that failure *)
C40_AbsorbedUnlessPoolFails ==
    [][ /\ (mpc' = "board" /\ mpc # "board") =>
              /\ mpc = "tier1" /\ src' = src
              /\ fallback_board' = board_links(limited_anchors, careers_urls[src])[1]
        /\ mpc = "board" => (mpc' \notin {"board", "tier1"} /\ fetched' = fetched)
        /\ (BoardFetchFails /\ concurrency > 0) =>
              /\ errors' = errors /\ totals' = totals
              /\ mpc' = "pool" /\ tasks' = <<>> /\ src' = src
        /\ (BoardFetchFails /\ concurrency <= 0) =>
              /\ errors' = Append(errors, [scope |-> "careers", url |-> careers_urls[src],
                                  message |-> "max_workers must be greater than 0"])
              /\ totals' = [totals EXCEPT !.errors = @ + 1]
              /\ src' = src + 1
        /\ (mpc = "pool" /\ tasks = <<>> /\ mpc' # "pool") =>
              /\ errors' = errors
              /\ totals' = [totals EXCEPT !.careers_processed = @ + 1]
              /\ src' = src + 1 ]_vars

====
